---- MODULE Spec2Model ----
(***************************************************************************)
(* videolib: the size-constrained splitter (core/splitter.py) driving the  *)
(* Segment command (core/ffmpeg_wrapper.py) over a file system             *)
(* (utils/file_utils.py).                                                  *)
(*                                                                         *)
(* One split_by_size call is modelled as a sequential state machine.  The  *)
(* external tool (ffprobe / ffmpeg) and the operating system are the       *)
(* environment: what a probe reports, which files a Segment run writes and *)
(* how large they are, and whether a copy, a rename or a delete succeeds   *)
(* are chosen nondeterministically.                                        *)
(*                                                                         *)
(* File names.  A path is a sequence of integers:                          *)
(*   <<0>>          the source file                                        *)
(*   <<1>>          the canonical output "{output_name}.{output_extension}"*)
(*   <<2, i>>       first-pass segment "{output_name}_{i:03d}.{ext}"       *)
(*   p \o <<j>>     "{p without ext}_sub_{uuid}_{j:03d}.{ext}", the j-th   *)
(*                  piece of a re-segmentation of p (the uuid is fresh for *)
(*                  every re-segmentation, so p and j identify the file)   *)
(* Lexicographic order of these sequences is the order of the path strings *)
(* (zero-padded counters; '.' sorts before '_').                           *)
(*                                                                         *)
(* The call sites splitter.py:137 and :213 construct SegmentCommand with   *)
(* the placeholder keyword '%03d' as an extra positional argument, which   *)
(* SegmentCommand.__init__ (ffmpeg_wrapper.py:198) does not declare.  The  *)
(* keyword is the one _find_segment_files hard-codes, and the model takes  *)
(* the command to be constructed with it, as the call sites are written.   *)
(* With the constructor as declared both call sites raise TypeError and no *)
(* Segment run ever happens; the properties confirmed below hold of that   *)
(* behaviour too (no outcome past the probe is then returned).             *)
(*                                                                         *)
(* Specifications.                                                         *)
(*   Spec, FairSpec  one split_by_size call                                *)
(*   SpecTwo         two split_by_size calls on two workers that share the *)
(*                   file system; the second call's names are "out_x"      *)
(*                   (<<2, 9>> and <<2, 9, i>>: they extend "out_") or     *)
(*                   "clip" (<<5>> and <<3, i>>), its source is <<4>>      *)
(*   ToolSpec        one call of probe_media, SegmentCommand.execute,      *)
(*                   ClipCommand.execute or _merge_video_clips             *)
(*                   (core/gif_converter.py), paths as strings             *)
(*   ResolverSpec    the three tiers of _find_segment_files, each run on   *)
(*                   its own, patterns and names as character sequences    *)
(*   SpecStale       one split_by_size call in a directory that holds a    *)
(*                   segment an earlier run left behind                    *)
(*   FindSpec        _find_segment_files as SegmentCommand.execute runs it,*)
(*                   tier after tier, and the sort of its list             *)
(*   DurationSpec    the target durations of splitter.py:95 and :203, as   *)
(*                   exact fractions                                       *)
(*   ParseSpec       the stream loop of _parse_media_info                  *)
(*   ConfigSpec      one call of load_from_dict, load_from_file or         *)
(*                   validate_config_file (config/config_manager.py)       *)
(*   BuilderSpec     the calls on one WorkflowBuilder                      *)
(*                   (config/task_definitions.py), its list and dict held  *)
(*                   as objects that the built configuration refers to     *)
(*   BatchSpec       one call of process_batch (core/video_processor.py)   *)
(* Each specification leaves the variables of the others at idle values.   *)
(***************************************************************************)
EXTENDS Integers, Sequences, FiniteSets, TLC

\* ---------------------------------------------------------------- bounds
MaxRounds == 2      \* max_rounds ranges over 0..MaxRounds
MaxKids == 2        \* files one Segment run writes: 0..MaxKids
MaxFiles == 4       \* files all Segment runs of one call write together
Limit == 2          \* the positive max_size_bytes of the requests

\* get_file_size / media_info.duration returning None
None == -1

Source == <<0>>
Canonical == <<1>>
FirstPassPattern == <<2>>

MaxSizeChoices == {-1, 0, Limit}
SourceSizes == {0, Limit, Limit + 1}
SegSizes == {Limit, Limit + 1}
OutputNames == {"", " ", "out"}
OutputExtensions == {"", "mp4"}
Durations == {-1, 0, 5}

VARIABLES
    options,          \* SplitOptions of the call
    disk,             \* the file system: path -> size in bytes
    pc,               \* position of the call
    source_probe,     \* FFmpegResult of the probe of the source
    segments,         \* _process_segments: first-pass segments not yet evaluated
    final_files,      \* _process_segments: final_files
    oversized_files,  \* _process_segments: oversized_files
    stack,            \* activation records of _split_oversized_segment
    split_files,      \* value returned by the outermost _split_oversized_segment
    result,           \* what split_by_size returned or raised
    disk0,            \* history: the file system when the call started
    probe_calls,      \* history: ffprobe child processes spawned
    segment_calls,    \* history: ffmpeg Segment child processes spawned
    created,          \* history: paths written by a Segment run of this call
    deleted,          \* history: paths this call deleted
    resegmented,      \* history: paths whose re-segmentation produced >= 1 file
    leaves,           \* history: [file, rounds, why] for each `return [segment_path]`
    segment_result,   \* FFmpegResult of the first-pass SegmentCommand.execute
    renamed_from,     \* history: paths this call renamed to the canonical name
    log,              \* history: the size evaluations and child processes, in order
    other,            \* a second split_by_size call, parked while this one runs
    tool_op,          \* the wrapper operation under call (one call per behaviour)
    tool_pc,          \* its position: "call", "run", "done"
    tool_fs,          \* the files and directories that exist
    tool_fs0,         \* the files and directories that existed before the call
    tool_dir,         \* os.path.dirname of the output path or pattern ("" when none)
    tool_spawned,     \* number of subprocess.run invocations of the call
    tool_ret,         \* what the call returned, or that it raised
    tool_env,         \* how the file system and the external tool behave in this call
    output_pattern,   \* SegmentCommand.output_pattern, a sequence of characters
    dir_names,        \* os.listdir of the pattern's directory
    glob_segments,    \* what the glob tier returned
    regex_segments,   \* what the regex tier returned
    decomposition_segments,  \* what the decomposition tier returned
    tiers_run,        \* the tiers that have run
    calc,             \* the sizes, durations and safety factors of a duration computation
    segment_duration, \* the first-pass target duration (splitter.py:95)
    new_duration,     \* the re-segmentation target duration of two calls (splitter.py:203)
    find_pattern,     \* self.output_pattern of a run of SegmentCommand.execute
    find_names,       \* the names in the directory of the pattern after ffmpeg ran
    find_pc,          \* where the run of _find_segment_files and the sort stand
    find_segments,    \* `segments` of _find_segment_files
    find_consulted,   \* history: the tiers consulted, in order
    find_output,      \* output_files of the FFmpegResult of execute
    streams,          \* data["streams"] of a probe output under parse
    parse_pc,         \* the position of the loop of _parse_media_info in streams
    video_codec,      \* the local video_codec of _parse_media_info
    audio_codec,      \* the local audio_codec
    width,            \* the local width
    height,           \* the local height
    media_info,       \* the MediaInfo returned
    current_config,   \* ConfigurationManager.current_config
    config_call,      \* history: the manager's call, its input, its outcome and the
                      \* current_config before it
    heap,             \* the list and the dict a WorkflowBuilder created, by object
    built,            \* the ProcessingConfig of the last build(): the objects its
                      \* fields refer to, and history: their values at the build
    builder_calls,    \* the number of calls made on the builder
    batch_tasks,      \* the tasks handed to process_batch, each with what its
                      \* operation will do
    batch_pc,         \* the position of the loop of process_batch in the tasks
    batch_results,    \* the local `results`
    batch_return      \* what process_batch returned or raised

\* the variables of the calls of split_by_size
splitter_vars ==
    <<options, disk, pc, source_probe, segments, final_files, oversized_files,
      stack, split_files, result, disk0, probe_calls, segment_calls, created,
      deleted, resegmented, leaves, segment_result, renamed_from, log, other>>

\* the variables of a call of one wrapper operation
tool_vars ==
    <<tool_op, tool_pc, tool_fs, tool_fs0, tool_dir, tool_spawned, tool_ret, tool_env>>

\* the variables of the runs of the three tiers of _find_segment_files
resolver_vars ==
    <<output_pattern, dir_names, glob_segments, regex_segments,
      decomposition_segments, tiers_run>>

\* the variables of the computations of the target durations
duration_vars == <<calc, segment_duration, new_duration>>

\* the variables of a run of _find_segment_files inside SegmentCommand.execute
find_vars ==
    <<find_pattern, find_names, find_pc, find_segments, find_consulted, find_output>>

\* the variables of a parse of a probe output
parse_vars == <<streams, parse_pc, video_codec, audio_codec, width, height, media_info>>

\* the variables of a ConfigurationManager
config_vars == <<current_config, config_call>>

\* the variables of a WorkflowBuilder and of the configuration it built
builder_vars == <<heap, built, builder_calls>>

\* the variables of a run of process_batch
batch_vars == <<batch_tasks, batch_pc, batch_results, batch_return>>

\* the variables of the specifications that follow the resolver's
later_vars == <<duration_vars, find_vars, parse_vars, config_vars, builder_vars, batch_vars>>

\* the later variables that a duration computation leaves alone
beside_duration == <<find_vars, parse_vars, config_vars, builder_vars, batch_vars>>

\* the later variables that a run of _find_segment_files leaves alone
beside_find == <<duration_vars, parse_vars, config_vars, builder_vars, batch_vars>>

\* the later variables that a parse of a probe output leaves alone
beside_parse == <<duration_vars, find_vars, config_vars, builder_vars, batch_vars>>

\* the later variables that the configuration operations leaves alone
beside_config == <<duration_vars, find_vars, parse_vars, builder_vars, batch_vars>>

\* the later variables that a WorkflowBuilder leaves alone
beside_builder == <<duration_vars, find_vars, parse_vars, config_vars, batch_vars>>

\* the later variables that a run of process_batch leaves alone
beside_batch == <<duration_vars, find_vars, parse_vars, config_vars, builder_vars>>

vars == <<splitter_vars, tool_vars, resolver_vars, later_vars>>

\* ------------------------------------------------------------ file system
\* os.path.exists
exists(d, f) == f \in DOMAIN d

\* FileManager.get_file_size: the size, or None when the file is absent
get_file_size(d, f) == IF exists(d, f) THEN d[f] ELSE None

\* os.remove inside FileManager.delete_file
delete_file(d, f) == [g \in DOMAIN d \ {f} |-> d[g]]

\* a file written (created or overwritten) with the given size
write_file(d, f, size) == [g \in DOMAIN d \cup {f} |-> IF g = f THEN size ELSE d[g]]

\* a move that leaves the source in place
move_keeping_source(d, src, dst) == write_file(d, dst, d[src])

\* shutil.move inside FileManager.move_file: destination replaced, source gone
move_file(d, src, dst) == delete_file(write_file(d, dst, d[src]), src)

\* shutil.copy2 inside FileManager.copy_file
copy_file(d, src, dst) == write_file(d, dst, d[src])

\* ------------------------------------------------------------ path order
Min(a, b) == IF a <= b THEN a ELSE b

\* string order of two paths
RECURSIVE LexLess(_, _)
LexLess(a, b) ==
    IF a = <<>> THEN b # <<>>
    ELSE IF b = <<>> THEN FALSE
    ELSE IF Head(a) # Head(b) THEN Head(a) < Head(b)
    ELSE LexLess(Tail(a), Tail(b))

\* the paths of S from the last to the first
RECURSIVE SortPathsDescending(_)
SortPathsDescending(S) ==
    IF S = {} THEN <<>>
    ELSE LET m == CHOOSE x \in S : \A y \in S \ {x} : LexLess(y, x)
         IN  <<m>> \o SortPathsDescending(S \ {m})

\* list.sort() / sorted() of a collection of distinct paths
RECURSIVE SortPaths(_)
SortPaths(S) ==
    IF S = {} THEN <<>>
    ELSE LET m == CHOOSE x \in S : \A y \in S \ {x} : LexLess(x, y)
         IN  <<m>> \o SortPaths(S \ {m})

Range(q) == {q[i] : i \in 1..Len(q)}

\* x put in its place in the ascending sequence q
RECURSIVE Insert(_, _)
Insert(x, q) ==
    IF q = <<>> THEN <<x>>
    ELSE IF LexLess(Head(q), x) THEN <<Head(q)>> \o Insert(x, Tail(q))
    ELSE <<x>> \o q

\* sorted(q) of a list of paths (duplicates are kept)
RECURSIVE sorted(_)
sorted(q) == IF q = <<>> THEN <<>> ELSE Insert(Head(q), sorted(Tail(q)))

IsProperPrefix(p, f) == Len(f) > Len(p) /\ SubSeq(f, 1, Len(p)) = p

\* ------------------------------------------------------------ the Segment command
\* SegmentCommand._find_segment_files: the placeholder replaced by '*' and
\* globbed; every existing path that extends the pattern's prefix matches
find_segment_files(d, pattern) == {f \in DOMAIN d : IsProperPrefix(pattern, f)}

\* f"{base_name}_sub_{unique_id}_%03d.{extension}": the prefix of the pieces of p
temp_pattern(p) == p

\* the files one successful ffmpeg Segment run may write: piece index -> size
SegmentWrites(budget) ==
    UNION {[0..(n - 1) -> SegSizes] : n \in 0..Min(MaxKids, budget)}

\* the file system after ffmpeg wrote the pieces w under the pattern (-y overwrites)
RECURSIVE WritePieces(_, _, _, _)
WritePieces(d, pattern, w, j) ==
    IF j \notin DOMAIN w THEN d
    ELSE WritePieces(write_file(d, pattern \o <<j>>, w[j]), pattern, w, j + 1)

PiecePaths(pattern, w) == {pattern \o <<j>> : j \in DOMAIN w}

\* ------------------------------------------------------------ probe results
\* the error messages of a failed probe_media (ffmpeg_wrapper.py:89-94)
ProbeErrors == {"FFprobe failed", "JSON decode error"}

ProbeResults ==
    {[success |-> FALSE, has_duration |-> FALSE, duration |-> 0, error_message |-> e] :
        e \in ProbeErrors}
    \cup {[success |-> TRUE, has_duration |-> FALSE, duration |-> 0, error_message |-> ""]}
    \cup {[success |-> TRUE, has_duration |-> TRUE, duration |-> x, error_message |-> ""] :
             x \in Durations}

NoProbe == [success |-> FALSE, has_duration |-> FALSE, duration |-> 0, error_message |-> ""]

\* the error messages of a failed SegmentCommand.execute (ffmpeg_wrapper.py:238-241)
SegmentErrors == {"FFmpeg segmentation failed", "ffmpeg not found"}

\* FFmpegResult of SegmentCommand.execute
SegmentFailed(e) == [success |-> FALSE, error_message |-> e, output_files |-> <<>>]
SegmentSucceeded(files) == [success |-> TRUE, error_message |-> "", output_files |-> files]
NoSegment == [success |-> FALSE, error_message |-> "", output_files |-> <<>>]

\* an entry of the log
Event(kind, path) == [kind |-> kind, path |-> path]

\* Python's `not duration`: None or 0.0
NotDuration(pr) == ~pr.has_duration \/ pr.duration = 0

\* the duration test without its `duration <= 0` half
DurationMissing(pr) == NotDuration(pr)

\* splitter.py:90  `if not duration or duration <= 0`
DurationUnknown(pr) == NotDuration(pr) \/ pr.duration <= 0

\* ------------------------------------------------------------ results
Pending ==
    [kind |-> "pending", success |-> FALSE, output_files |-> <<>>,
     oversized_files |-> <<>>, was_copied |-> FALSE, error_message |-> ""]

\* SplitResult(success=False, error_message=msg)
Failure(msg) ==
    [kind |-> "returned", success |-> FALSE, output_files |-> <<>>,
     oversized_files |-> <<>>, was_copied |-> FALSE, error_message |-> msg]

\* SplitResult(success=True, output_files=out, oversized_files=over, was_copied=c)
Success(out, over, c) ==
    [kind |-> "returned", success |-> TRUE, output_files |-> out,
     oversized_files |-> over, was_copied |-> c, error_message |-> ""]

\* an exception escaping split_by_size
Raised(msg) ==
    [kind |-> "raised", success |-> FALSE, output_files |-> <<>>,
     oversized_files |-> <<>>, was_copied |-> FALSE, error_message |-> msg]

\* ------------------------------------------------------------ validation
\* str.strip() on the names of the model
strip(s) == IF s = " " THEN "" ELSE s

\* Python's `not x` for an Optional[int]: None or 0
NotSize(x) == x = None \/ x = 0

\* _validate_options without its last test, the one of the extension
validate_options_no_extension(o, d) ==
    IF NotSize(get_file_size(d, o.source_file)) THEN "Source file not found"
    ELSE IF o.max_size_bytes <= 0 THEN "Max size must be greater than 0"
    ELSE IF strip(o.output_name) = "" THEN "Output name cannot be empty"
    ELSE ""

\* VideoSplitter._validate_options: the message of the ValidationError raised,
\* "" when the options pass
validate_options(o, d) ==
    IF NotSize(get_file_size(d, o.source_file)) THEN "Source file not found"
    ELSE IF o.max_size_bytes <= 0 THEN "Max size must be greater than 0"
    ELSE IF strip(o.output_name) = "" THEN "Output name cannot be empty"
    ELSE IF strip(o.output_extension) = "" THEN "Output extension cannot be empty"
    ELSE ""

\* no second call
NoCall == [pc |-> "none"]

\* files the Segment runs of one of two concurrent calls write together
TwoCallFiles == 2

\* files the Segment runs of the running call write together
FileBudget == IF other = NoCall THEN MaxFiles ELSE TwoCallFiles

\* ------------------------------------------------------------ names of a request
\* f"{options.output_name}_%03d.{options.output_extension}": the prefix of the
\* first-pass pieces.  "out_x_000.mp4" also extends the prefix "out_"
pattern_of(o) ==
    IF o.output_name = "out_x" THEN FirstPassPattern \o <<9>>
    ELSE IF o.output_name = "clip" THEN <<3>>
    ELSE FirstPassPattern

\* f"{options.output_name}.{options.output_extension}"; "out_x.mp4" extends "out_"
canonical_of(o) ==
    IF o.output_name = "out_x" THEN FirstPassPattern \o <<9>>
    ELSE IF o.output_name = "clip" THEN <<5>>
    ELSE Canonical

\* no duration is computed on its own
DurationIdle ==
    /\ calc = [idle |-> TRUE]
    /\ segment_duration = <<>> /\ new_duration = <<>>

\* a codec name that is None
NoCodec == "None"

\* no probe output is parsed on its own
ParseIdle ==
    /\ streams = <<>> /\ parse_pc = 0
    /\ video_codec = NoCodec /\ audio_codec = NoCodec
    /\ width = None /\ height = None
    /\ media_info = [idle |-> TRUE]

\* self.current_config = None (config_manager.py:71)
NoConfig == [none |-> TRUE]

\* no ConfigurationManager is in use
ConfigIdle == current_config = NoConfig /\ config_call = [op |-> "none"]

\* no configuration has been built
NotBuilt == [made |-> FALSE]

\* no WorkflowBuilder is in use
BuilderIdle == heap = [idle |-> TRUE] /\ built = NotBuilt /\ builder_calls = 0

\* process_batch is not under call
BatchIdle ==
    /\ batch_tasks = <<>> /\ batch_pc = 0 /\ batch_results = <<>>
    /\ batch_return = [kind |-> "idle"]

\* _find_segment_files is not run inside execute
FindIdle ==
    /\ find_pattern = <<>> /\ find_names = {} /\ find_pc = "idle"
    /\ find_segments = {} /\ find_consulted = <<>> /\ find_output = <<>>

\* the specifications that follow the resolver's are idle
LaterIdle == DurationIdle /\ FindIdle /\ ParseIdle /\ ConfigIdle /\ BuilderIdle /\ BatchIdle

\* all is idle but the splitter, the wrapper, the resolver and a duration computation
BesideDurationIdle == FindIdle /\ ParseIdle /\ ConfigIdle /\ BuilderIdle /\ BatchIdle

\* all is idle but the splitter, the wrapper, the resolver and a run of _find_segment_files
BesideFindIdle == DurationIdle /\ ParseIdle /\ ConfigIdle /\ BuilderIdle /\ BatchIdle

\* all is idle but the splitter, the wrapper, the resolver and a parse of a probe output
BesideParseIdle == DurationIdle /\ FindIdle /\ ConfigIdle /\ BuilderIdle /\ BatchIdle

\* all is idle but the splitter, the wrapper, the resolver and the configuration operations
BesideConfigIdle == DurationIdle /\ FindIdle /\ ParseIdle /\ BuilderIdle /\ BatchIdle

\* all is idle but the splitter, the wrapper, the resolver and a WorkflowBuilder
BesideBuilderIdle == DurationIdle /\ FindIdle /\ ParseIdle /\ ConfigIdle /\ BatchIdle

\* all is idle but the splitter, the wrapper, the resolver and a run of process_batch
BesideBatchIdle == DurationIdle /\ FindIdle /\ ParseIdle /\ ConfigIdle /\ BuilderIdle

\* no tier of the resolver is run on its own
ResolverIdle ==
    /\ output_pattern = <<>> /\ dir_names = {}
    /\ glob_segments = {} /\ regex_segments = {} /\ decomposition_segments = {}
    /\ tiers_run = {}

\* no wrapper operation is under call on its own
ToolIdle ==
    /\ tool_op = "none" /\ tool_pc = "idle"
    /\ tool_fs = {} /\ tool_fs0 = {}
    /\ tool_dir = "" /\ tool_spawned = 0
    /\ tool_ret = [kind |-> "pending"]
    /\ tool_env = [idle |-> TRUE]

\* ------------------------------------------------------------ initial states
Requests ==
    [source_file : {Source},
     output_name : OutputNames,
     output_extension : OutputExtensions,
     max_size_bytes : MaxSizeChoices,
     max_rounds : 0..MaxRounds]

\* the file system before the call: the source absent, or present with some size
InitialDisks == {<<>>} \cup {[f \in {Source} |-> sz] : sz \in SourceSizes}

Init ==
    /\ options \in Requests
    /\ disk \in InitialDisks
    /\ disk0 = disk
    /\ pc = "start"
    /\ source_probe = NoProbe
    /\ segments = <<>>
    /\ final_files = <<>>
    /\ oversized_files = <<>>
    /\ stack = <<>>
    /\ split_files = <<>>
    /\ result = Pending
    /\ probe_calls = 0
    /\ segment_calls = 0
    /\ created = {}
    /\ deleted = {}
    /\ resegmented = {}
    /\ leaves = {}
    /\ segment_result = NoSegment
    /\ renamed_from = {}
    /\ log = <<>>
    /\ other = NoCall
    /\ ToolIdle
    /\ ResolverIdle
    /\ LaterIdle

\* ------------------------------------------------------------ split_by_size
\* splitter.py:71-82: validation, then the size test that selects the fast path
split_by_size ==
    /\ pc = "start"
    /\ LET msg == validate_options(options, disk) IN
         IF msg # ""
         THEN /\ result' = Failure(msg)
              /\ pc' = "done"
         ELSE /\ result' = result
              /\ pc' = IF get_file_size(disk, options.source_file) <= options.max_size_bytes
                       THEN "copy" ELSE "probe"
    /\ UNCHANGED <<options, disk, source_probe, segments, final_files, oversized_files,
                   stack, split_files, disk0, probe_calls, segment_calls, created,
                   deleted, resegmented, leaves, segment_result, renamed_from, log,
                   other, tool_vars, resolver_vars, later_vars>>

\* VideoSplitter._copy_file (splitter.py:114-128); the copy itself may fail
splitter_copy_file ==
    /\ pc = "copy"
    /\ \E ok \in BOOLEAN :
         IF ok
         THEN /\ disk' = copy_file(disk, options.source_file, canonical_of(options))
              /\ result' = Success(<<canonical_of(options)>>, <<>>, TRUE)
         ELSE /\ disk' = disk
              /\ result' = Failure("Failed to copy file")
    /\ pc' = "done"
    /\ UNCHANGED <<options, source_probe, segments, final_files, oversized_files,
                   stack, split_files, disk0, probe_calls, segment_calls, created,
                   deleted, resegmented, leaves, segment_result, renamed_from, log,
                   other, tool_vars, resolver_vars, later_vars>>

\* splitter.py:86-87: the failure of the probe is returned with its message
ProbeFailure(pr) == Failure(pr.error_message)

\* a variant that drops the tool's message of the Segment run
SegmentationFailureAnonymous(res) == Failure("")

\* splitter.py:140-141: the failure of the Segment run is returned with its message
SegmentationFailure(res) == Failure(res.error_message)

\* splitter.py:84-91: probe the source, fail when the duration is unknown
probe_source ==
    /\ pc = "probe"
    /\ \E pr \in ProbeResults :
         /\ source_probe' = pr
         /\ IF ~pr.success
            THEN /\ result' = ProbeFailure(pr)
                 /\ pc' = "done"
            ELSE IF DurationUnknown(pr)
            THEN /\ result' = Failure("Could not determine video duration")
                 /\ pc' = "done"
            ELSE /\ result' = result
                 /\ pc' = "segment"
    /\ probe_calls' = probe_calls + 1
    /\ log' = Append(log, Event("probe", options.source_file))
    /\ UNCHANGED <<options, disk, segments, final_files, oversized_files, stack,
                   split_files, disk0, segment_calls, created, deleted, resegmented,
                   leaves, segment_result, renamed_from, other, tool_vars, resolver_vars, later_vars>>

\* splitter.py:93-98 and _perform_segmentation (130-144) with SegmentCommand.execute
\* (ffmpeg_wrapper.py:218-241): a non-zero exit is a failure; otherwise the files
\* found under the pattern, sorted, are handed to _process_segments
perform_segmentation ==
    /\ pc = "segment"
    /\ segment_calls' = segment_calls + 1
    /\ log' = Append(log, Event("segment", options.source_file))
    /\ \/ \E e \in SegmentErrors :
            /\ segment_result' = SegmentFailed(e)
            /\ result' = SegmentationFailure(segment_result')
            /\ pc' = "done"
            /\ UNCHANGED <<disk, segments, created>>
       \/ \E w \in SegmentWrites(FileBudget - Cardinality(created)) :
            /\ disk' = WritePieces(disk, pattern_of(options), w, 0)
            /\ created' = created \cup PiecePaths(pattern_of(options), w)
            /\ segment_result' =
                   SegmentSucceeded(SortPaths(find_segment_files(disk', pattern_of(options))))
            /\ segments' = segment_result'.output_files
            /\ result' = result
            /\ pc' = "process"
    /\ UNCHANGED <<options, source_probe, final_files, oversized_files, stack,
                   split_files, disk0, probe_calls, deleted, resegmented, leaves,
                   renamed_from, other, tool_vars, resolver_vars, later_vars>>

\* ------------------------------------------------------------ _split_oversized_segment
\* an activation record of _split_oversized_segment(segment_path, max_size, max_rounds)
Frame(path, rounds) ==
    [segment_path |-> path, max_rounds |-> rounds, at |-> "enter",
     output_files |-> <<>>, final_segments |-> <<>>]

Top == Head(stack)

\* the stack after the top activation returned v: the caller (splitter.py:222-223)
\* extends its final_segments with v
ReturnTo(stk, v) ==
    IF Len(stk) = 1 THEN <<>>
    ELSE <<[stk[2] EXCEPT !.final_segments = @ \o v]>> \o SubSeq(stk, 3, Len(stk))

\* `return v` of the top activation
Return(v) ==
    /\ stack' = ReturnTo(stack, v)
    /\ pc' = IF Len(stack) = 1 THEN "classify" ELSE "split"
    /\ split_files' = IF Len(stack) = 1 THEN v ELSE split_files

Leaf(why) ==
    [file |-> Top.segment_path, rounds |-> Top.max_rounds, why |-> why,
     size |-> get_file_size(disk, Top.segment_path)]

\* splitter.py:198  `current_size <= max_size`
CurrentWithin(size, max) == size <= max

\* a recursive call that is handed the caller's budget undiminished
SameRounds(r) == r

\* splitter.py:222  the round budget handed to the recursive call
NextRounds(r) == r - 1

\* ffmpeg_wrapper.py:71-72: the probe of a path that does not exist fails
ProbeOf(d, f) == {pr \in ProbeResults : exists(d, f) \/ ~pr.success}

\* splitter.py:187-199: the round test, the probe of the segment, the size test
split_oversized_segment_enter ==
    /\ pc = "split"
    /\ Top.at = "enter"
    /\ IF Top.max_rounds <= 0
       THEN /\ Return(<<Top.segment_path>>)
            /\ leaves' = leaves \cup {Leaf("rounds")}
            /\ UNCHANGED <<probe_calls, log>>
       ELSE /\ probe_calls' = probe_calls + 1
            /\ log' = Append(log, Event("probe", Top.segment_path))
            /\ \E pr \in ProbeOf(disk, Top.segment_path) :
                 IF ~pr.success \/ NotDuration(pr)
                 THEN /\ Return(<<Top.segment_path>>)
                      /\ leaves' = leaves \cup {Leaf("probe")}
                 ELSE IF CurrentWithin(get_file_size(disk, Top.segment_path),
                                       options.max_size_bytes)
                 THEN /\ Return(<<Top.segment_path>>)
                      /\ leaves' = leaves \cup {Leaf("fits")}
                 ELSE /\ stack' = <<[Top EXCEPT !.at = "execute"]>> \o Tail(stack)
                      /\ UNCHANGED <<pc, split_files, leaves>>
    /\ UNCHANGED <<options, disk, source_probe, segments, final_files, oversized_files,
                   result, disk0, segment_calls, created, deleted, resegmented,
                   segment_result, renamed_from, other, tool_vars, resolver_vars, later_vars>>

\* splitter.py:201-217 with SegmentCommand.execute: re-segment the segment under a
\* pattern of its own
split_oversized_segment_execute ==
    /\ pc = "split"
    /\ Top.at = "execute"
    /\ segment_calls' = segment_calls + 1
    /\ log' = Append(log, Event("segment", Top.segment_path))
    /\ \/ /\ Return(<<Top.segment_path>>)
          /\ leaves' = leaves \cup {Leaf("segment")}
          /\ UNCHANGED <<disk, created, resegmented>>
       \/ \E w \in SegmentWrites(FileBudget - Cardinality(created)) :
            LET pattern == temp_pattern(Top.segment_path)
                readable == exists(disk, Top.segment_path)
                d == WritePieces(disk, pattern, w, 0)
                found == SortPaths(find_segment_files(d, pattern))
            IN  /\ readable
                /\ disk' = d
                /\ created' = created \cup PiecePaths(pattern, w)
                /\ resegmented' = IF found # <<>>
                                  THEN resegmented \cup {Top.segment_path}
                                  ELSE resegmented
                /\ stack' = <<[Top EXCEPT !.at = "recurse", !.output_files = found]>>
                            \o Tail(stack)
                /\ UNCHANGED <<pc, split_files, leaves>>
    /\ UNCHANGED <<options, source_probe, segments, final_files, oversized_files,
                   result, disk0, probe_calls, deleted, segment_result, renamed_from,
                   other, tool_vars, resolver_vars, later_vars>>

\* splitter.py:219-225: recurse into the next new segment with one round less, or
\* return the collected final segments
split_oversized_segment_recurse ==
    /\ pc = "split"
    /\ Top.at = "recurse"
    /\ IF Top.output_files = <<>>
       THEN Return(Top.final_segments)
       ELSE /\ stack' = <<Frame(Head(Top.output_files), NextRounds(Top.max_rounds)),
                          [Top EXCEPT !.output_files = Tail(@)]>> \o Tail(stack)
            /\ UNCHANGED <<pc, split_files>>
    /\ UNCHANGED <<options, disk, source_probe, segments, final_files, oversized_files,
                   result, disk0, probe_calls, segment_calls, created, deleted,
                   resegmented, leaves, segment_result, renamed_from, log, other, tool_vars, resolver_vars, later_vars>>

\* ------------------------------------------------------------ _process_segments
\* the comparison of splitter.py:154 off by one byte
SegmentWithinLoose(size, max) == size <= max + 1

\* splitter.py:154  `segment_size <= options.max_size_bytes`
SegmentWithin(size, max) == size <= max

\* the comparison of splitter.py:168 off by one byte
SplitWithinLoose(size, max) == size <= max + 1

\* splitter.py:168  `split_size <= options.max_size_bytes`
SplitWithin(size, max) == size <= max

\* splitter.py:152-154: `segment_size <= options.max_size_bytes` raises TypeError
\* when the segment is gone and its size is None
SegmentSizeMissing(size) == size = None

\* splitter.py:151-160: the next first-pass segment is accepted or handed to
\* _split_oversized_segment with the full round budget
process_segments_loop ==
    /\ pc = "process"
    /\ segments # <<>>
    /\ log' = Append(log, Event("evaluate", Head(segments)))
    /\ IF SegmentSizeMissing(get_file_size(disk, Head(segments)))
       THEN /\ result' = Raised("TypeError")
            /\ pc' = "done"
            /\ UNCHANGED <<final_files, segments, stack>>
       ELSE IF SegmentWithin(get_file_size(disk, Head(segments)), options.max_size_bytes)
       THEN /\ final_files' = Append(final_files, Head(segments))
            /\ segments' = Tail(segments)
            /\ UNCHANGED <<pc, stack, result>>
       ELSE /\ stack' = <<Frame(Head(segments), options.max_rounds)>>
            /\ pc' = "split"
            /\ UNCHANGED <<final_files, segments, result>>
    /\ UNCHANGED <<options, disk, source_probe, oversized_files, split_files,
                   disk0, probe_calls, segment_calls, created, deleted, resegmented,
                   leaves, segment_result, renamed_from, other, tool_vars, resolver_vars, later_vars>>

\* a comparison that takes a missing size for a size
CompareNeverRaises(size) == FALSE

\* `split_size <= options.max_size_bytes` raises TypeError when split_size is None
CompareRaises(size) == size = None

\* splitter.py:166-171 over the files fs on the file system d: the two lists after
\* the loop, and whether the comparison raised
RECURSIVE Classify(_, _, _, _, _)
Classify(d, fs, max, ff, of) ==
    IF fs = <<>> THEN [final |-> ff, over |-> of, raised |-> FALSE]
    ELSE IF CompareRaises(get_file_size(d, Head(fs)))
    THEN [final |-> ff, over |-> of, raised |-> TRUE]
    ELSE IF SplitWithin(get_file_size(d, Head(fs)), max)
    THEN Classify(d, Tail(fs), max, Append(ff, Head(fs)), of)
    ELSE Classify(d, Tail(fs), max, ff, Append(of, Head(fs)))

\* splitter.py:162-171: the oversized segment is removed (the removal of an existing
\* file succeeds), then what _split_oversized_segment returned is classified
process_segments_classify ==
    /\ pc = "classify"
    /\ LET segment == Head(segments)
           d == delete_file(disk, segment)
           c == Classify(d, split_files, options.max_size_bytes, final_files,
                         oversized_files)
       IN  /\ disk' = d
           /\ deleted' = IF exists(disk, segment) THEN deleted \cup {segment} ELSE deleted
           /\ final_files' = c.final
           /\ oversized_files' = c.over
           /\ IF c.raised
              THEN /\ result' = Raised("TypeError")
                   /\ pc' = "done"
                   /\ segments' = segments
              ELSE /\ result' = result
                   /\ pc' = "process"
                   /\ segments' = Tail(segments)
    /\ split_files' = <<>>
    /\ UNCHANGED <<options, source_probe, stack, disk0, probe_calls, segment_calls,
                   created, resegmented, leaves, segment_result, renamed_from, log,
                   other, tool_vars, resolver_vars, later_vars>>

\* splitter.py:173-183: the single-file rename (shutil.move may fail, and fails
\* when the file is gone), then the outcome with both lists sorted
process_segments_return ==
    /\ pc = "process"
    /\ segments = <<>>
    /\ \/ /\ Len(final_files) = 1 /\ oversized_files = <<>>
          /\ \E moved \in (IF exists(disk, final_files[1]) THEN BOOLEAN ELSE {FALSE}) :
               IF moved
               THEN /\ disk' = move_file(disk, final_files[1], canonical_of(options))
                    /\ final_files' = <<canonical_of(options)>>
                    /\ renamed_from' = renamed_from \cup {final_files[1]}
               ELSE UNCHANGED <<disk, final_files, renamed_from>>
       \/ /\ ~(Len(final_files) = 1 /\ oversized_files = <<>>)
          /\ UNCHANGED <<disk, final_files, renamed_from>>
    /\ result' = Success(sorted(final_files'), sorted(oversized_files),
                         FALSE)
    /\ pc' = "done"
    /\ UNCHANGED <<options, source_probe, segments, oversized_files, stack, split_files,
                   disk0, probe_calls, segment_calls, created, deleted, resegmented,
                   leaves, segment_result, log, other, tool_vars, resolver_vars, later_vars>>

\* ------------------------------------------------------------ specification
Next ==
    \/ split_by_size
    \/ splitter_copy_file
    \/ probe_source
    \/ perform_segmentation
    \/ process_segments_loop
    \/ split_oversized_segment_enter
    \/ split_oversized_segment_execute
    \/ split_oversized_segment_recurse
    \/ process_segments_classify
    \/ process_segments_return

Spec == Init /\ [][Next]_vars

\* the call is one sequential thread whose child processes return: it keeps stepping
FairSpec == Spec /\ WF_vars(Next)

\* ------------------------------------------------------------ two concurrent calls
\* budget of rounds of the first of the two concurrent calls; the second has none
TwoCallRounds == 1

\* the source file of the second call
Source2 == <<4>>

\* output names of the second call: one that begins with the first call's
\* name and an underscore, one that shares nothing with it
SecondNames == {"out_x", "clip"}

\* the local state of the running call
Local ==
    [options |-> options, pc |-> pc, source_probe |-> source_probe,
     segments |-> segments, final_files |-> final_files,
     oversized_files |-> oversized_files, stack |-> stack,
     split_files |-> split_files, result |-> result, probe_calls |-> probe_calls,
     segment_calls |-> segment_calls, created |-> created, deleted |-> deleted,
     resegmented |-> resegmented, leaves |-> leaves,
     segment_result |-> segment_result, renamed_from |-> renamed_from, log |-> log]

\* the local state of a call that has not started
NewCall(o) ==
    [options |-> o, pc |-> "start", source_probe |-> NoProbe,
     segments |-> <<>>, final_files |-> <<>>, oversized_files |-> <<>>,
     stack |-> <<>>, split_files |-> <<>>, result |-> Pending, probe_calls |-> 0,
     segment_calls |-> 0, created |-> {}, deleted |-> {}, resegmented |-> {},
     leaves |-> {}, segment_result |-> NoSegment, renamed_from |-> {}, log |-> <<>>]

\* two valid requests on distinct sources with distinct output names; the first
\* source is above the limit, the second at or above it
InitTwo ==
    /\ \E name2 \in SecondNames :
          /\ options = [source_file |-> Source, output_name |-> "out",
                        output_extension |-> "mp4", max_size_bytes |-> Limit,
                        max_rounds |-> TwoCallRounds]
          /\ other = NewCall([source_file |-> Source2, output_name |-> name2,
                              output_extension |-> "mp4", max_size_bytes |-> Limit,
                              max_rounds |-> 0])
    /\ disk \in {[f \in {Source, Source2} |-> IF f = Source THEN Limit + 1 ELSE sz] :
                   sz \in {Limit, Limit + 1}}
    /\ disk0 = disk
    /\ pc = "start"
    /\ source_probe = NoProbe
    /\ segments = <<>>
    /\ final_files = <<>>
    /\ oversized_files = <<>>
    /\ stack = <<>>
    /\ split_files = <<>>
    /\ result = Pending
    /\ probe_calls = 0
    /\ segment_calls = 0
    /\ created = {}
    /\ deleted = {}
    /\ resegmented = {}
    /\ leaves = {}
    /\ segment_result = NoSegment
    /\ renamed_from = {}
    /\ log = <<>>
    /\ ToolIdle
    /\ ResolverIdle
    /\ LaterIdle

\* the worker of the other call is scheduled: the two calls share nothing but
\* the file system
Switch ==
    /\ other.pc \notin {"none", "done"}
    /\ other' = Local
    /\ options' = other.options
    /\ pc' = other.pc
    /\ source_probe' = other.source_probe
    /\ segments' = other.segments
    /\ final_files' = other.final_files
    /\ oversized_files' = other.oversized_files
    /\ stack' = other.stack
    /\ split_files' = other.split_files
    /\ result' = other.result
    /\ probe_calls' = other.probe_calls
    /\ segment_calls' = other.segment_calls
    /\ created' = other.created
    /\ deleted' = other.deleted
    /\ resegmented' = other.resegmented
    /\ leaves' = other.leaves
    /\ segment_result' = other.segment_result
    /\ renamed_from' = other.renamed_from
    /\ log' = other.log
    /\ UNCHANGED <<disk, disk0, tool_vars, resolver_vars, later_vars>>

NextTwo == Next \/ Switch

SpecTwo == InitTwo /\ [][NextTwo]_vars

\* ------------------------------------------------------------ the wrapper operations
\* no split_by_size call is in progress
SplitterIdle ==
    /\ options = [source_file |-> Source, output_name |-> "out",
                  output_extension |-> "mp4", max_size_bytes |-> Limit,
                  max_rounds |-> 0]
    /\ disk = <<>> /\ disk0 = <<>>
    /\ pc = "idle"
    /\ source_probe = NoProbe /\ segment_result = NoSegment
    /\ segments = <<>> /\ final_files = <<>> /\ oversized_files = <<>>
    /\ stack = <<>> /\ split_files = <<>>
    /\ result = Pending
    /\ probe_calls = 0 /\ segment_calls = 0
    /\ created = {} /\ deleted = {} /\ resegmented = {} /\ leaves = {}
    /\ renamed_from = {} /\ log = <<>>
    /\ other = NoCall

\* the operations: FFmpegWrapper.probe_media, SegmentCommand.execute,
\* ClipCommand.execute, VideoGifConverter._merge_video_clips
ToolOps == {"probe_media", "segment", "clip", "merge"}

\* the input of probe_media, Segment and Clip
InputPath == "in.mp4"

\* the directory part of the output path or pattern: none, or a directory
OutputDirs == {"", "d"}

\* the file Clip and the merge write, and the pieces Segment writes
OutputPath(dir) == IF dir = "" THEN "o.mp4" ELSE "d/o.mp4"
PiecesOf(dir) == IF dir = "" THEN <<"o_000.mp4", "o_001.mp4">>
                 ELSE <<"d/o_000.mp4", "d/o_001.mp4">>

\* gif_converter.py:334
Manifest == "temp_video_concat.txt"

\* how the world answers during one call: os.makedirs succeeds or raises
\* OSError; the executable starts or subprocess.run raises FileNotFoundError;
\* the tool exits 0 or not; it leaves its output or not; ffprobe's output is
\* valid JSON or not; the merge is given clips or an empty list
ToolEnvs ==
    [mkdir_ok : BOOLEAN, tool_found : BOOLEAN, exit_zero : BOOLEAN,
     writes : BOOLEAN, parses : BOOLEAN, has_clips : BOOLEAN]

\* FFmpegResult(success=..., error_message=..., output_files=...)
FFmpegResult(success, msg, files) ==
    [kind |-> "returned", success |-> success, error_message |-> msg,
     output_files |-> files]

\* an exception that leaves the operation
ToolRaised(msg) ==
    [kind |-> "raised", success |-> FALSE, error_message |-> msg, output_files |-> <<>>]

\* what subprocess.run(cmd, check=True) does: "FileNotFoundError" when the
\* executable cannot be started, "CalledProcessError" on a non-zero exit
RunOutcome(e) ==
    IF ~e.tool_found THEN "FileNotFoundError"
    ELSE IF ~e.exit_zero THEN "CalledProcessError"
    ELSE "ok"

ToolInit ==
    /\ SplitterIdle
    /\ tool_op \in ToolOps
    /\ tool_pc = "call"
    /\ tool_dir \in OutputDirs
    /\ tool_fs \in {{}, {InputPath}}
    /\ tool_fs0 = tool_fs
    /\ tool_spawned = 0
    /\ tool_ret = [kind |-> "pending"]
    /\ tool_env \in ToolEnvs
    /\ ResolverIdle
    /\ LaterIdle
    \* ffmpeg exits non-zero on an input that does not exist
    /\ (tool_op \in {"segment", "clip"} /\ InputPath \notin tool_fs) => ~tool_env.exit_zero

\* a probe_media that spawns ffprobe without looking for the file first
probe_media_unchecked(files, file_path, e) ==
    [spawned |-> 1, ret |-> FFmpegResult(FALSE, "FFprobe failed", <<>>)]

\* FFmpegWrapper.probe_media (ffmpeg_wrapper.py:69-94): the child processes it
\* spawns and the result it returns; ffprobe only reads
probe_media(files, file_path, e) ==
    IF file_path \notin files
    THEN [spawned |-> 0, ret |-> FFmpegResult(FALSE, "File not found", <<>>)]
    ELSE [spawned |-> 1,
          ret |-> IF RunOutcome(e) = "FileNotFoundError"
                  THEN FFmpegResult(FALSE, "No such file or directory: ffprobe", <<>>)
                  ELSE IF RunOutcome(e) = "CalledProcessError"
                  THEN FFmpegResult(FALSE, "FFprobe failed", <<>>)
                  ELSE IF ~e.parses
                  THEN FFmpegResult(FALSE, "JSON decode error", <<>>)
                  ELSE FFmpegResult(TRUE, "", <<>>)]

\* one call of probe_media
tool_probe_media ==
    /\ tool_op = "probe_media" /\ tool_pc = "call"
    /\ LET r == probe_media(tool_fs, InputPath, tool_env) IN
         /\ tool_spawned' = tool_spawned + r.spawned
         /\ tool_ret' = r.ret
    /\ tool_pc' = "done"
    /\ UNCHANGED <<tool_op, tool_fs, tool_fs0, tool_dir, tool_env, splitter_vars, resolver_vars, later_vars>>

\* ffmpeg_wrapper.py:220-223 and 329-332: os.makedirs(out_dir, exist_ok=True)
\* before the try block; an OSError leaves execute
execute_makedirs ==
    IF tool_dir = "" THEN /\ tool_pc' = "run"
                          /\ UNCHANGED <<tool_fs, tool_ret>>
    ELSE IF tool_env.mkdir_ok
    THEN /\ tool_fs' = tool_fs \cup {tool_dir}
         /\ tool_pc' = "run"
         /\ UNCHANGED tool_ret
    ELSE /\ tool_ret' = ToolRaised("OSError")
         /\ tool_pc' = "done"
         /\ UNCHANGED tool_fs

\* SegmentCommand.execute, lines 220-223
segment_makedirs ==
    /\ tool_op = "segment" /\ tool_pc = "call"
    /\ execute_makedirs
    /\ UNCHANGED <<tool_op, tool_fs0, tool_dir, tool_spawned, tool_env, splitter_vars, resolver_vars, later_vars>>

\* SegmentCommand.execute, lines 225-241: the run, then the files found
segment_run ==
    /\ tool_op = "segment" /\ tool_pc = "run"
    /\ tool_spawned' = tool_spawned + 1
    /\ IF RunOutcome(tool_env) = "FileNotFoundError"
       THEN /\ tool_ret' = FFmpegResult(FALSE, "No such file or directory: ffmpeg", <<>>)
            /\ UNCHANGED tool_fs
       ELSE IF RunOutcome(tool_env) = "CalledProcessError"
       THEN /\ tool_ret' = FFmpegResult(FALSE, "FFmpeg segmentation failed", <<>>)
            /\ UNCHANGED tool_fs
       ELSE LET written == IF tool_env.writes THEN PiecesOf(tool_dir) ELSE <<>> IN
            /\ tool_fs' = tool_fs \cup Range(written)
            /\ tool_ret' = FFmpegResult(TRUE, "", written)
    /\ tool_pc' = "done"
    /\ UNCHANGED <<tool_op, tool_fs0, tool_dir, tool_env, splitter_vars, resolver_vars, later_vars>>

\* ClipCommand.execute, lines 329-332
clip_makedirs ==
    /\ tool_op = "clip" /\ tool_pc = "call"
    /\ execute_makedirs
    /\ UNCHANGED <<tool_op, tool_fs0, tool_dir, tool_spawned, tool_env, splitter_vars, resolver_vars, later_vars>>

\* ClipCommand.execute, lines 334-348: the run, then the test of the output
clip_run ==
    /\ tool_op = "clip" /\ tool_pc = "run"
    /\ tool_spawned' = tool_spawned + 1
    /\ IF RunOutcome(tool_env) = "FileNotFoundError"
       THEN /\ tool_ret' = FFmpegResult(FALSE, "No such file or directory: ffmpeg", <<>>)
            /\ UNCHANGED tool_fs
       ELSE IF RunOutcome(tool_env) = "CalledProcessError"
       THEN /\ tool_ret' = FFmpegResult(FALSE, "FFmpeg clip failed", <<>>)
            /\ UNCHANGED tool_fs
       ELSE /\ tool_fs' = IF tool_env.writes THEN tool_fs \cup {OutputPath(tool_dir)}
                          ELSE tool_fs
            /\ tool_ret' = IF OutputPath(tool_dir) \in tool_fs'
                           THEN FFmpegResult(TRUE, "", <<OutputPath(tool_dir)>>)
                           ELSE FFmpegResult(FALSE, "Output file was not created", <<>>)
    /\ tool_pc' = "done"
    /\ UNCHANGED <<tool_op, tool_fs0, tool_dir, tool_env, splitter_vars, resolver_vars, later_vars>>

\* f"{options.output_name}_merged.mp4" (gif_converter.py:101)
MergedPath == "out_merged.mp4"

\* what _merge_video_clips returns: the output path, or None
MergeReturned(path) ==
    [kind |-> "returned", success |-> path # "", error_message |-> "",
     output_files |-> IF path = "" THEN <<>> ELSE <<path>>]

\* _merge_video_clips, gif_converter.py:330-340: nothing to merge, or the
\* manifest is written
merge_write_manifest ==
    /\ tool_op = "merge" /\ tool_pc = "call"
    /\ IF ~tool_env.has_clips
       THEN /\ tool_ret' = MergeReturned("")
            /\ tool_pc' = "done"
            /\ UNCHANGED tool_fs
       ELSE /\ tool_fs' = tool_fs \cup {Manifest}
            /\ tool_pc' = "run"
            /\ UNCHANGED tool_ret
    /\ UNCHANGED <<tool_op, tool_fs0, tool_dir, tool_spawned, tool_env, splitter_vars, resolver_vars, later_vars>>

\* _merge_video_clips, gif_converter.py:342-363: the run; the manifest is removed
\* after a run that did not raise; `except Exception` returns None at once
merge_run ==
    /\ tool_op = "merge" /\ tool_pc = "run"
    /\ tool_spawned' = tool_spawned + 1
    /\ IF RunOutcome(tool_env) # "ok"
       THEN /\ tool_ret' = MergeReturned("")
            /\ UNCHANGED tool_fs
       ELSE LET written == IF tool_env.writes THEN tool_fs \cup {MergedPath}
                           ELSE tool_fs
            IN  /\ tool_fs' = written \ {Manifest}
                /\ tool_ret' = MergeReturned(IF MergedPath \in written
                                             THEN MergedPath ELSE "")
    /\ tool_pc' = "done"
    /\ UNCHANGED <<tool_op, tool_fs0, tool_dir, tool_env, splitter_vars, resolver_vars, later_vars>>

ToolNext ==
    \/ tool_probe_media
    \/ segment_makedirs
    \/ segment_run
    \/ clip_makedirs
    \/ clip_run
    \/ merge_write_manifest
    \/ merge_run

ToolSpec == ToolInit /\ [][ToolNext]_vars

\* ------------------------------------------------------------ the resolver
\* files the Segment run left in the directory of the pattern
MaxTasks == 2       \* a configuration lists at most MaxTasks tasks
MaxBuilderCalls == 4  \* the calls made on one WorkflowBuilder
MaxBatch == 3       \* process_batch is handed at most MaxBatch tasks
MaxStreams == 3     \* a probe output lists at most MaxStreams streams
MaxN == 3

\* '%03d'
Placeholder == <<"%", "0", "3", "d">>

\* "o_%03d.m", "d/o_%03d.m", "./o_%03d.m", "a-%03d": patterns as
\* _perform_segmentation builds them, with and without a directory part
Patterns ==
    {<<"o", "_">> \o Placeholder \o <<".", "m">>,
     <<"d", "/", "o", "_">> \o Placeholder \o <<".", "m">>,
     <<".", "/", "o", "_">> \o Placeholder \o <<".", "m">>,
     <<"a", "-">> \o Placeholder}

DigitChars == <<"0", "1", "2", "3", "4", "5", "6", "7", "8", "9">>

\* '%03d' % i
Format03d(i) ==
    <<DigitChars[((i \div 100) % 10) + 1], DigitChars[((i \div 10) % 10) + 1],
      DigitChars[(i % 10) + 1]>>

\* s[k:]
Drop(s, k) == SubSeq(s, k + 1, Len(s))

\* s.startswith(sub)
StartsWith(s, sub) == Len(s) >= Len(sub) /\ SubSeq(s, 1, Len(sub)) = sub

\* s.endswith(sub)
EndsWith(s, sub) == Len(s) >= Len(sub) /\ Drop(s, Len(s) - Len(sub)) = sub

\* s.replace(sub, by)
RECURSIVE Replace(_, _, _)
Replace(s, sub, by) ==
    IF s = <<>> THEN <<>>
    ELSE IF StartsWith(s, sub) THEN by \o Replace(Drop(s, Len(sub)), sub, by)
    ELSE <<Head(s)>> \o Replace(Tail(s), sub, by)

\* s.split(sub)
RECURSIVE SplitAt(_, _, _)
SplitAt(s, sub, part) ==
    IF s = <<>> THEN <<part>>
    ELSE IF StartsWith(s, sub) THEN <<part>> \o SplitAt(Drop(s, Len(sub)), sub, <<>>)
    ELSE SplitAt(Tail(s), sub, Append(part, Head(s)))

\* the position of the last '/' of p, 0 when p has none
LastSlash(p) ==
    IF \E i \in 1..Len(p) : p[i] = "/"
    THEN CHOOSE i \in 1..Len(p) : p[i] = "/" /\ \A j \in (i + 1)..Len(p) : p[j] # "/"
    ELSE 0

\* os.path.dirname, os.path.basename, os.path.join
dirname(p) == SubSeq(p, 1, LastSlash(p) - 1)
basename(p) == Drop(p, LastSlash(p))
join(dir, name) == dir \o <<"/">> \o name

\* the file ffmpeg writes for index i
Generated(pattern, i) == Replace(pattern, Placeholder, Format03d(i))
\* the position of the ']' that closes the class opened by the '[' at pat[1], 0
\* when there is none (fnmatch.translate: a ']' right after the '[' is a member)
ClassEnd(pat) ==
    IF \E j \in 3..Len(pat) : pat[j] = "]"
    THEN CHOOSE j \in 3..Len(pat) : pat[j] = "]" /\ \A k \in 3..(j - 1) : pat[k] # "]"
    ELSE 0

\* fnmatch of a name against a pattern with the wildcards '*' and '[...]', the
\* classes being plain lists of characters; a '[' that is not closed is literal
RECURSIVE GlobMatch(_, _)
GlobMatch(pat, name) ==
    IF pat = <<>> THEN name = <<>>
    ELSE IF Head(pat) = "*"
    THEN \E k \in 0..Len(name) : GlobMatch(Tail(pat), Drop(name, k))
    ELSE IF Head(pat) = "[" /\ ClassEnd(pat) # 0
    THEN /\ name # <<>>
         /\ \E k \in 2..(ClassEnd(pat) - 1) : pat[k] = Head(name)
         /\ GlobMatch(Drop(pat, ClassEnd(pat)), Tail(name))
    ELSE name # <<>> /\ Head(name) = Head(pat) /\ GlobMatch(Tail(pat), Tail(name))

\* the characters re.escape puts a backslash before (Python >= 3.7, the
\* versions setup.py admits); '%' and '/' are not among them
EscapedChars ==
    {"(", ")", "[", "]", "{", "}", "?", "*", "+", "-", "|", "^", "$", "\\", ".",
     "&", "~", "#", " "}

\* re.escape
RECURSIVE re_escape(_)
re_escape(p) ==
    IF p = <<>> THEN <<>>
    ELSE (IF Head(p) \in EscapedChars THEN <<"\\", Head(p)>> ELSE <<Head(p)>>)
         \o re_escape(Tail(p))

\* r'\%03d' and r'\d{3}'
EscapedPlaceholder == <<"\\">> \o Placeholder
DigitClass == <<"\\", "d", "{", "3", "}">>

IsDigit(c) == \E i \in 1..Len(DigitChars) : DigitChars[i] = c

\* re.match of a name against a regex made of literals, escaped literals and
\* \d{3}: the regex must match at the start of the name
RECURSIVE re_match(_, _)
re_match(regex, name) ==
    IF regex = <<>> THEN TRUE
    ELSE IF StartsWith(regex, DigitClass)
    THEN /\ Len(name) >= 3
         /\ \A i \in 1..3 : IsDigit(name[i])
         /\ re_match(Drop(regex, Len(DigitClass)), Drop(name, 3))
    ELSE IF Head(regex) = "\\"
    THEN /\ Len(regex) >= 2 /\ name # <<>> /\ Head(name) = regex[2]
         /\ re_match(Drop(regex, 2), Tail(name))
    ELSE name # <<>> /\ Head(name) = Head(regex) /\ re_match(Tail(regex), Tail(name))

\* os.path.dirname(self.output_pattern) or "."
output_dir(pattern) == IF dirname(pattern) = <<>> THEN <<".">> ELSE dirname(pattern)

\* ffmpeg_wrapper.py:247-250: glob.glob of the pattern with '%03d' replaced by '*'
glob_tier(pattern, names) ==
    LET glob_pattern == Replace(pattern, Placeholder, <<"*">>) IN
    {IF LastSlash(glob_pattern) = 0 THEN f ELSE join(dirname(glob_pattern), f) :
        f \in {g \in names : GlobMatch(basename(glob_pattern), g)}}

\* ffmpeg_wrapper.py:258-272: the escaped pattern, its escaped placeholder
\* replaced by \d{3}, matched against each name of the directory
regex_tier(pattern, names) ==
    LET regex_pattern == Replace(re_escape(pattern), EscapedPlaceholder, DigitClass) IN
    {join(output_dir(pattern), f) : f \in {g \in names : re_match(regex_pattern, g)}}

\* str.isdigit
isdigit(q) == q # <<>> /\ \A i \in 1..Len(q) : IsDigit(q[i])

\* ffmpeg_wrapper.py:279-297: prefix and suffix around the placeholder, digits
\* in between
decomposition_tier(pattern, names) ==
    LET pattern_parts == SplitAt(pattern, Placeholder, <<>>) IN
    IF Len(pattern_parts) # 2 THEN {}
    ELSE LET prefix == basename(pattern_parts[1])
             suffix == pattern_parts[2]
         IN  {join(output_dir(pattern), f) :
                f \in {g \in names :
                         /\ StartsWith(g, prefix) /\ EndsWith(g, suffix)
                         /\ isdigit(SubSeq(g, Len(prefix) + 1, Len(g) - Len(suffix)))}}

\* a directory that holds exactly the N files generated from the pattern
ResolverInit ==
    /\ SplitterIdle /\ ToolIdle /\ LaterIdle
    /\ output_pattern \in Patterns
    /\ \E n \in 0..MaxN :
          dir_names = {basename(Generated(output_pattern, i)) : i \in 0..(n - 1)}
    /\ glob_segments = {} /\ regex_segments = {} /\ decomposition_segments = {}
    /\ tiers_run = {}

run_glob_tier ==
    /\ output_pattern # <<>> /\ "glob" \notin tiers_run
    /\ glob_segments' = glob_tier(output_pattern, dir_names)
    /\ tiers_run' = tiers_run \cup {"glob"}
    /\ UNCHANGED <<output_pattern, dir_names, regex_segments, decomposition_segments,
                   splitter_vars, tool_vars, later_vars>>

run_regex_tier ==
    /\ output_pattern # <<>> /\ "regex" \notin tiers_run
    /\ regex_segments' = regex_tier(output_pattern, dir_names)
    /\ tiers_run' = tiers_run \cup {"regex"}
    /\ UNCHANGED <<output_pattern, dir_names, glob_segments, decomposition_segments,
                   splitter_vars, tool_vars, later_vars>>

run_decomposition_tier ==
    /\ output_pattern # <<>> /\ "decomposition" \notin tiers_run
    /\ decomposition_segments' = decomposition_tier(output_pattern, dir_names)
    /\ tiers_run' = tiers_run \cup {"decomposition"}
    /\ UNCHANGED <<output_pattern, dir_names, glob_segments, regex_segments,
                   splitter_vars, tool_vars, later_vars>>

ResolverNext == run_glob_tier \/ run_regex_tier \/ run_decomposition_tier

ResolverSpec == ResolverInit /\ [][ResolverNext]_vars

\* ------------------------------------------------------------ leftovers of an earlier run
\* "{output_name}_002.{ext}": a segment an earlier run left in the source's
\* directory, numbered past the segments a run writes here
Stale == FirstPassPattern \o <<MaxKids>>

\* the file system before the call: the source and the leftover
StaleDisks ==
    {[f \in {Source, Stale} |-> IF f = Source THEN sz ELSE st] :
        sz \in SourceSizes, st \in SegSizes}

\* a call of split_by_size in a directory that holds the leftover
InitStale ==
    /\ options \in Requests
    /\ disk \in StaleDisks
    /\ disk0 = disk
    /\ pc = "start"
    /\ source_probe = NoProbe
    /\ segments = <<>> /\ final_files = <<>> /\ oversized_files = <<>>
    /\ stack = <<>> /\ split_files = <<>>
    /\ result = Pending
    /\ probe_calls = 0 /\ segment_calls = 0
    /\ created = {} /\ deleted = {} /\ resegmented = {} /\ leaves = {}
    /\ segment_result = NoSegment
    /\ renamed_from = {}
    /\ log = <<>>
    /\ other = NoCall
    /\ ToolIdle /\ ResolverIdle /\ LaterIdle

SpecStale == InitStale /\ [][Next]_vars

\* ------------------------------------------------------------ the resolver inside execute
\* the characters of the names, in the order of their code points
Alphabet ==
    <<"%", "-", ".", "/", "0", "1", "2", "3", "4", "5", "6", "7", "8", "9",
      "[", "]", "_", "a", "d", "m", "o", "q">>

\* ord(c), up to the order
Ord(c) == CHOOSE i \in 1..Len(Alphabet) : Alphabet[i] = c

\* a < b of two str
RECURSIVE StrLess(_, _)
StrLess(a, b) ==
    IF b = <<>> THEN FALSE
    ELSE IF a = <<>> THEN TRUE
    ELSE IF Head(a) = Head(b) THEN StrLess(Tail(a), Tail(b))
    ELSE Ord(Head(a)) < Ord(Head(b))

\* ffmpeg_wrapper.py:233  segments.sort() of the paths a tier found
RECURSIVE sort(_)
sort(S) ==
    IF S = {} THEN <<>>
    ELSE LET least == CHOOSE x \in S : \A y \in S \ {x} : StrLess(x, y)
         IN  <<least>> \o sort(S \ {least})

\* the patterns of the resolver and "o[1]_%03d.m", "d/o[1]_%03d.m": an output
\* name with a character glob reads as a class
FindPatterns ==
    Patterns \cup
    {<<"o", "[", "1", "]", "_">> \o Placeholder \o <<".", "m">>,
     <<"d", "/", "o", "[", "1", "]", "_">> \o Placeholder \o <<".", "m">>}

\* names the directory may hold besides the files ffmpeg wrote: a file named as
\* the pattern itself, one that continues that name, and "o1_000.m"
Strays(pattern) ==
    {basename(pattern), basename(pattern) \o <<"q">>,
     <<"o", "1", "_", "0", "0", "0", ".", "m">>}

\* a tier that hands its list on whether or not it found a file
returns_always(found) == TRUE

\* ffmpeg_wrapper.py:252, 274  `if segments: return segments`
returns(found) == found # {}

\* execute after subprocess.run returned: the directory holds the n files that
\* ffmpeg wrote and some other names
FindInit ==
    /\ SplitterIdle /\ ToolIdle /\ ResolverIdle /\ BesideFindIdle
    /\ find_pattern \in FindPatterns
    /\ \E n \in 0..MaxN, stray \in SUBSET Strays(find_pattern) :
          find_names = {basename(Generated(find_pattern, i)) : i \in 0..(n - 1)}
                       \cup stray
    /\ find_pc = "glob"
    /\ find_segments = {} /\ find_consulted = <<>> /\ find_output = <<>>

\* ffmpeg_wrapper.py:245-253
find_glob ==
    /\ find_pc = "glob"
    /\ find_segments' = glob_tier(find_pattern, find_names)
    /\ find_consulted' = Append(find_consulted, "glob")
    /\ find_pc' = IF returns(find_segments') THEN "sort" ELSE "regex"
    /\ UNCHANGED <<find_pattern, find_names, find_output, splitter_vars, tool_vars,
                   resolver_vars, beside_find>>

\* ffmpeg_wrapper.py:255-275
find_regex ==
    /\ find_pc = "regex"
    /\ find_segments' = regex_tier(find_pattern, find_names)
    /\ find_consulted' = Append(find_consulted, "regex")
    /\ find_pc' = IF returns(find_segments') THEN "sort" ELSE "decomposition"
    /\ UNCHANGED <<find_pattern, find_names, find_output, splitter_vars, tool_vars,
                   resolver_vars, beside_find>>

\* ffmpeg_wrapper.py:277-299
find_decomposition ==
    /\ find_pc = "decomposition"
    /\ find_segments' = decomposition_tier(find_pattern, find_names)
    /\ find_consulted' = Append(find_consulted, "decomposition")
    /\ find_pc' = "sort"
    /\ UNCHANGED <<find_pattern, find_names, find_output, splitter_vars, tool_vars,
                   resolver_vars, beside_find>>

\* ffmpeg_wrapper.py:233-235: segments.sort(); return FFmpegResult(success=True,
\* output_files=segments)
find_return ==
    /\ find_pc = "sort"
    /\ find_output' = sort(find_segments)
    /\ find_pc' = "done"
    /\ UNCHANGED <<find_pattern, find_names, find_segments, find_consulted,
                   splitter_vars, tool_vars, resolver_vars, beside_find>>

FindNext == find_glob \/ find_regex \/ find_decomposition \/ find_return

FindSpec == FindInit /\ [][FindNext]_vars

\* ------------------------------------------------------------ _parse_media_info
\* the streams ffprobe may list: video streams with or without a codec name,
\* audio streams with or without one, and a stream of another type
StreamKinds ==
    [codec_type : {"video"}, codec_name : {NoCodec, "h264", "vp9"},
     width : {640, 1280}, height : {480}]
    \cup [codec_type : {"audio"}, codec_name : {NoCodec, "aac", "mp3"},
          width : {None}, height : {None}]
    \cup [codec_type : {"data"}, codec_name : {NoCodec}, width : {None}, height : {None}]

\* the stream lists of at most n streams
RECURSIVE StreamLists(_)
StreamLists(n) ==
    IF n = 0 THEN {<<>>}
    ELSE StreamLists(n - 1)
         \cup {Append(q, k) : q \in {r \in StreamLists(n - 1) : Len(r) = n - 1},
                              k \in StreamKinds}

\* Python's `not video_codec` for a codec name that is None or a non-empty str
NotCodec(c) == c = NoCodec

\* ffmpeg_wrapper.py:107-111: the locals before the loop
ParseInit ==
    /\ SplitterIdle /\ ToolIdle /\ ResolverIdle /\ BesideParseIdle
    /\ streams \in StreamLists(MaxStreams)
    /\ parse_pc = 1
    /\ video_codec = NoCodec /\ audio_codec = NoCodec
    /\ width = None /\ height = None
    /\ media_info = [idle |-> TRUE]

\* ffmpeg_wrapper.py:113-119: one turn of `for stream in streams`
parse_stream ==
    /\ parse_pc \in DOMAIN streams
    /\ LET stream == streams[parse_pc] IN
         IF stream.codec_type = "video" /\ NotCodec(video_codec)
         THEN /\ video_codec' = stream.codec_name
              /\ width' = stream.width
              /\ height' = stream.height
              /\ UNCHANGED audio_codec
         ELSE IF stream.codec_type = "audio" /\ NotCodec(audio_codec)
         THEN /\ audio_codec' = stream.codec_name
              /\ UNCHANGED <<video_codec, width, height>>
         ELSE UNCHANGED <<video_codec, audio_codec, width, height>>
    /\ parse_pc' = parse_pc + 1
    /\ UNCHANGED <<streams, media_info, splitter_vars, tool_vars, resolver_vars,
                   beside_parse>>

\* ffmpeg_wrapper.py:135-144: the stream fields of the MediaInfo returned
parse_return ==
    /\ parse_pc = Len(streams) + 1
    /\ "idle" \in DOMAIN media_info
    /\ media_info' = [video_codec |-> video_codec, audio_codec |-> audio_codec,
                      width |-> width, height |-> height]
    /\ parse_pc' = 0
    /\ UNCHANGED <<streams, video_codec, audio_codec, width, height, splitter_vars,
                   tool_vars, resolver_vars, beside_parse>>

ParseNext == parse_stream \/ parse_return

ParseSpec == ParseInit /\ [][ParseNext]_vars

\* ------------------------------------------------------------ ConfigurationManager
\* format_utils.py:110-114 over the urls drawn: non-empty and http:// or https://
is_valid_url(url) == url \in {"http://v", "https://v"}

\* `not s.strip()` over the strings drawn
IsBlank(s) == s \in {"", "  "}

\* validation.py:118-133, the list of errors, each a message and the field it names
validate_download_config(config) ==
    (IF "url" \notin DOMAIN config THEN <<<<"Missing required field", "url">>>>
     ELSE IF ~is_valid_url(config.url) THEN <<<<"Invalid URL", "url">>>>
     ELSE <<>>)
    \o (IF "output_filename" \notin DOMAIN config
        THEN <<<<"Missing required field", "output_filename">>>>
        ELSE IF IsBlank(config.output_filename) THEN <<<<"Output filename cannot be empty", "output_filename">>>>
        ELSE <<>>)

\* validation.py:141-146 for one required field
RequiredField(config, field) ==
    IF field \notin DOMAIN config THEN <<<<"Missing required field", field>>>>
    ELSE IF IsBlank(config[field]) THEN <<<<"Field cannot be empty", field>>>>
    ELSE <<>>

\* InputValidator.validate_file_exists over the paths drawn
validate_file_exists(path) == path = "in.mp4"

\* InputValidator.validate_size_string over the sizes drawn
validate_size_string(size) == size = "2GB"

\* validation.py:136-158, the list of errors
validate_split_config(config) ==
    RequiredField(config, "source_file") \o RequiredField(config, "output_name")
    \o RequiredField(config, "output_extension") \o RequiredField(config, "max_size")
    \o (IF "source_file" \in DOMAIN config /\ ~validate_file_exists(config.source_file)
        THEN <<<<"Source file does not exist", "source_file">>>> ELSE <<>>)
    \o (IF "max_size" \in DOMAIN config /\ ~validate_size_string(config.max_size)
        THEN <<<<"Invalid size", "max_size">>>> ELSE <<>>)

\* config_manager.py:16-25, the list of errors; no clip task is drawn
TaskConfig_validate(task) ==
    IF task.task_type = "download" THEN validate_download_config(task.parameters)
    ELSE IF task.task_type = "split" THEN validate_split_config(task.parameters)
    ELSE <<<<"Unknown task type", "type">>>>

\* config_manager.py:46-50: the errors of the tasks from the i-th on
RECURSIVE TaskErrors(_, _)
TaskErrors(tasks, i) ==
    IF i > Len(tasks) THEN <<>>
    ELSE [j \in 1..Len(TaskConfig_validate(tasks[i])) |->
             [task |-> i, error |-> TaskConfig_validate(tasks[i])[j]]]
         \o TaskErrors(tasks, i + 1)

\* config_manager.py:37-52, the list of errors
ProcessingConfig_validate(config) ==
    IF config.tasks = <<>> THEN <<[task |-> 0, error |-> <<"No tasks specified", "tasks">>]>>
    ELSE TaskErrors(config.tasks, 1)

\* raise ValidationError(msg) with the errors the message lists
ValidationError(msg, errors) ==
    [kind |-> "raised", exception |-> "ValidationError", message |-> msg, errors |-> errors]

\* a call of the manager that returned value
Gave(value) == [kind |-> "returned", value |-> value]

\* config_manager.py:80-94: the first malformed entry of the task list, 0 when none
FirstMalformed(task_list) ==
    IF \E i \in 1..Len(task_list) : "type" \notin DOMAIN task_list[i]
                                    \/ "parameters" \notin DOMAIN task_list[i]
    THEN CHOOSE i \in 1..Len(task_list) :
            /\ "type" \notin DOMAIN task_list[i] \/ "parameters" \notin DOMAIN task_list[i]
            /\ \A j \in 1..(i - 1) :
                  "type" \in DOMAIN task_list[j] /\ "parameters" \in DOMAIN task_list[j]
    ELSE 0

\* config_manager.py:81-88: the message for a malformed entry
MalformedMessage(task_data) ==
    IF "notdict" \in DOMAIN task_data THEN "Task must be a dictionary"
    ELSE IF "type" \notin DOMAIN task_data THEN "Task missing 'type' field"
    ELSE "Task missing 'parameters' field"

\* config_manager.py:96-100: ProcessingConfig(tasks, config_dict.get('global_settings', {}))
ParsedConfig(config_dict) ==
    [tasks |-> [i \in 1..Len(config_dict.tasks) |->
                   [task_type |-> config_dict.tasks[i].type,
                    parameters |-> config_dict.tasks[i].parameters]],
     global_settings |-> IF "global_settings" \in DOMAIN config_dict
                         THEN config_dict.global_settings ELSE {}]

\* config_manager.py:73-108: what load_from_dict returns or raises
load_from_dict_outcome(config_dict) ==
    IF "tasks" \notin DOMAIN config_dict
    THEN ValidationError("Configuration must contain 'tasks' field", <<>>)
    ELSE IF FirstMalformed(config_dict.tasks) # 0
    THEN LET i == FirstMalformed(config_dict.tasks) IN
         ValidationError(MalformedMessage(config_dict.tasks[i]),
                         <<[task |-> i,
                            error |-> <<MalformedMessage(config_dict.tasks[i]), "task">>]>>)
    ELSE IF ProcessingConfig_validate(ParsedConfig(config_dict)) # <<>>
    THEN ValidationError("Configuration validation failed",
                         ProcessingConfig_validate(ParsedConfig(config_dict)))
    ELSE Gave(ParsedConfig(config_dict))

\* a load_from_dict that stores the configuration before it validates it
current_config_stored_early(before, outcome, config_dict) ==
    IF "tasks" \in DOMAIN config_dict /\ FirstMalformed(config_dict.tasks) = 0
    THEN ParsedConfig(config_dict) ELSE before

\* config_manager.py:107: current_config after load_from_dict
current_config_after(before, outcome, config_dict) ==
    IF outcome.kind = "returned" THEN outcome.value ELSE before

\* the parameters of the download and split tasks drawn: valid ones, ones that
\* lack a field and ones with a value the validators refuse
DownloadParameters ==
    {[url |-> "http://v", output_filename |-> "a.mp4"],
     [output_filename |-> "a.mp4"],
     [url |-> "ftp://v", output_filename |-> "  "]}

SplitParameters ==
    {[source_file |-> "in.mp4", output_name |-> "o", output_extension |-> "mp4",
      max_size |-> "2GB"],
     [source_file |-> "in.mp4", output_name |-> "o", output_extension |-> "mp4"],
     [source_file |-> "gone.mp4", output_name |-> "o", output_extension |-> "mp4",
      max_size |-> "big"]}

\* the entries of config_dict['tasks'] drawn
TaskData ==
    {[notdict |-> TRUE], [parameters |-> [url |-> "http://v"]], [type |-> "download"],
     [type |-> "transcode", parameters |-> [url |-> "http://v"]]}
    \cup [type : {"download"}, parameters : DownloadParameters]
    \cup [type : {"split"}, parameters : SplitParameters]

\* the lists of at most n entries
RECURSIVE TaskLists(_)
TaskLists(n) ==
    IF n = 0 THEN {<<>>}
    ELSE TaskLists(n - 1)
         \cup {Append(q, t) : q \in {r \in TaskLists(n - 1) : Len(r) = n - 1},
                              t \in TaskData}

\* the dictionaries drawn: without 'tasks', with 'tasks', with 'global_settings'
ConfigDicts ==
    {[global_settings |-> {<<"video_codec", "copy">>}]}
    \cup [tasks : TaskLists(MaxTasks)]
    \cup [tasks : TaskLists(MaxTasks), global_settings : {{<<"video_codec", "copy">>}}]

\* what a path may hold: nothing, text that is not JSON, a dictionary
FileContents == {[absent |-> TRUE], [notjson |-> TRUE]} \cup ConfigDicts

\* config_manager.py:110-123: what load_from_file returns or raises
load_from_file_outcome(content) ==
    IF "absent" \in DOMAIN content
    THEN [kind |-> "raised", exception |-> "FileNotFoundError",
          message |-> "Configuration file not found", errors |-> <<>>]
    ELSE IF "notjson" \in DOMAIN content
    THEN ValidationError("Invalid JSON in configuration file", <<>>)
    ELSE load_from_dict_outcome(content)

\* the configurations a manager holds after a load that succeeded
LoadedConfigs ==
    {load_from_dict_outcome(d).value :
        d \in {e \in ConfigDicts : load_from_dict_outcome(e).kind = "returned"}}

\* a manager as constructed or after an earlier load, before the call
ConfigInit ==
    /\ SplitterIdle /\ ToolIdle /\ ResolverIdle /\ BesideConfigIdle
    /\ current_config \in {NoConfig} \cup LoadedConfigs
    /\ config_call = [op |-> "none"]

\* config_manager.py:73-108
load_from_dict ==
    /\ config_call.op = "none"
    /\ \E config_dict \in ConfigDicts :
         LET outcome == load_from_dict_outcome(config_dict) IN
         /\ current_config' = current_config_after(current_config, outcome, config_dict)
         /\ config_call' = [op |-> "load_from_dict", input |-> config_dict,
                            before |-> current_config, outcome |-> outcome]
    /\ UNCHANGED <<splitter_vars, tool_vars, resolver_vars, beside_config>>

\* config_manager.py:110-123
load_from_file ==
    /\ config_call.op = "none"
    /\ \E content \in FileContents :
         LET outcome == load_from_file_outcome(content) IN
         /\ current_config' = current_config_after(current_config, outcome, content)
         /\ config_call' = [op |-> "load_from_file", input |-> content,
                            before |-> current_config, outcome |-> outcome]
    /\ UNCHANGED <<splitter_vars, tool_vars, resolver_vars, beside_config>>

\* config_manager.py:200-208: load_from_file inside a try that turns every
\* exception into (False, [message])
validate_config_file ==
    /\ config_call.op = "none"
    /\ \E content \in FileContents :
         LET loaded == load_from_file_outcome(content) IN
         /\ current_config' = current_config_after(current_config, loaded, content)
         /\ config_call' =
               [op |-> "validate_config_file", input |-> content,
                before |-> current_config,
                outcome |-> IF loaded.kind = "returned" THEN Gave(<<TRUE, <<>>>>)
                            ELSE Gave(<<FALSE, <<loaded.message>>>>)]
    /\ UNCHANGED <<splitter_vars, tool_vars, resolver_vars, beside_config>>

ConfigNext == load_from_dict \/ load_from_file \/ validate_config_file

ConfigSpec == ConfigInit /\ [][ConfigNext]_vars

\* ------------------------------------------------------------ WorkflowBuilder
\* the objects self.tasks and self.global_settings refer to (task_definitions.py:128-129)
TasksObject == "tasks_list"
SettingsObject == "settings_dict"

\* config_manager.py:156-164
create_download_task(url, output_filename) ==
    [task_type |-> "download",
     parameters |-> [url |-> url, output_filename |-> output_filename]]

\* config_manager.py:166-177
create_split_task(source_file, output_name, output_extension, max_size) ==
    [task_type |-> "split",
     parameters |-> [source_file |-> source_file, output_name |-> output_name,
                     output_extension |-> output_extension, max_size |-> max_size]]

\* config_manager.py:179-193
create_clip_task(source_file, output_name, output_extension, intervals, vcodec, acodec) ==
    [task_type |-> "clip",
     parameters |-> [source_file |-> source_file, output_name |-> output_name,
                     output_extension |-> output_extension, intervals |-> intervals,
                     video_codec |-> vcodec, audio_codec |-> acodec]]

\* d[key] = value on a dict held as a set of <<key, value>>
SetItem(d, key, value) == {kv \in d : kv[1] # key} \cup {<<key, value>>}

\* task_definitions.py:126-129: a new builder with an empty list and an empty dict
BuilderInit ==
    /\ SplitterIdle /\ ToolIdle /\ ResolverIdle /\ BesideBuilderIdle
    /\ heap = [tasks_list |-> <<>>, settings_dict |-> {}]
    /\ built = NotBuilt
    /\ builder_calls = 0

\* one more call on the builder
BuilderCall ==
    /\ "idle" \notin DOMAIN heap
    /\ builder_calls < MaxBuilderCalls
    /\ builder_calls' = builder_calls + 1

\* self.tasks.append(task)
AppendTask(task) == heap' = [heap EXCEPT ![TasksObject] = Append(@, task)]

\* task_definitions.py:131-135
add_download ==
    /\ BuilderCall
    /\ AppendTask(create_download_task("http://v", "a.mp4"))
    /\ UNCHANGED <<built, splitter_vars, tool_vars, resolver_vars, beside_builder>>

\* task_definitions.py:137-142
add_split ==
    /\ BuilderCall
    /\ AppendTask(create_split_task("in.mp4", "o", "mp4", "2GB"))
    /\ UNCHANGED <<built, splitter_vars, tool_vars, resolver_vars, beside_builder>>

\* task_definitions.py:144-152
add_clip ==
    /\ BuilderCall
    /\ AppendTask(create_clip_task("in.mp4", "c", "mp4", <<[start |-> "0", end |-> "60"]>>,
                                   "copy", "copy"))
    /\ UNCHANGED <<built, splitter_vars, tool_vars, resolver_vars, beside_builder>>

\* task_definitions.py:154-157
set_global_setting ==
    /\ BuilderCall
    /\ \E value \in {"copy", "h264"} :
         heap' = [heap EXCEPT ![SettingsObject] = SetItem(@, "video_codec", value)]
    /\ UNCHANGED <<built, splitter_vars, tool_vars, resolver_vars, beside_builder>>

\* task_definitions.py:159-163
set_default_codec ==
    /\ BuilderCall
    /\ heap' = [heap EXCEPT ![SettingsObject] =
                    SetItem(SetItem(@, "video_codec", "copy"), "audio_codec", "copy")]
    /\ UNCHANGED <<built, splitter_vars, tool_vars, resolver_vars, beside_builder>>

\* task_definitions.py:165-168
set_default_extension ==
    /\ BuilderCall
    /\ heap' = [heap EXCEPT ![SettingsObject] = SetItem(@, "output_extension", "mp4")]
    /\ UNCHANGED <<built, splitter_vars, tool_vars, resolver_vars, beside_builder>>

\* task_definitions.py:170-172 with config_manager.py:195-198 and 33-35: the
\* ProcessingConfig keeps the list and the dict it is handed; a dict that is
\* empty is not None and is kept as well
build ==
    /\ BuilderCall
    /\ built' = [made |-> TRUE, tasks |-> TasksObject, global_settings |-> SettingsObject,
                 tasks_at_build |-> heap[TasksObject],
                 settings_at_build |-> heap[SettingsObject]]
    /\ UNCHANGED <<heap, splitter_vars, tool_vars, resolver_vars, beside_builder>>

\* task_definitions.py:174-178: list.clear() and dict.clear() empty the objects
clear ==
    /\ BuilderCall
    /\ heap' = [heap EXCEPT ![TasksObject] = <<>>, ![SettingsObject] = {}]
    /\ UNCHANGED <<built, splitter_vars, tool_vars, resolver_vars, beside_builder>>

BuilderNext ==
    \/ add_download \/ add_split \/ add_clip
    \/ set_global_setting \/ set_default_codec \/ set_default_extension
    \/ build \/ clear

BuilderSpec == BuilderInit /\ [][BuilderNext]_vars

\* ------------------------------------------------------------ process_batch
\* the tasks drawn: the four known types, whose operation returns a result
\* object that reports success or failure or raises, and an unknown type
BatchTasks ==
    [type : {"download", "split", "clip", "gif"},
     does : {"succeeds", "fails", "raises"}]
    \cup [type : {"transcode"}, does : {"nothing"}]

\* the task lists of at most n tasks
RECURSIVE BatchLists(_)
BatchLists(n) ==
    IF n = 0 THEN {<<>>}
    ELSE BatchLists(n - 1)
         \cup {Append(q, t) : q \in {r \in BatchLists(n - 1) : Len(r) = n - 1},
                              t \in BatchTasks}

\* a DownloadResult, SplitResult, ClipResult or GifResult: an object with the
\* attribute success and no method get
ResultObject(success) == [is_dict |-> FALSE, success |-> success]

\* {'success': False, 'error_message': ...}
ResultDict == [is_dict |-> TRUE, success |-> FALSE]

\* video_processor.py:149-176: the result recorded for a task
ResultOf(task) ==
    IF task.type \in {"download", "split", "clip", "gif"}
    THEN IF task.does = "raises" THEN ResultDict
         ELSE ResultObject(task.does = "succeeds")
    ELSE ResultDict

\* video_processor.py:179  getattr(r['result'], 'success', r['result'].get('success',
\* False)): the default is evaluated before getattr is called, so a result that
\* has no method get raises AttributeError
SuccessRaises(r) == ~r.result.is_dict

\* the number of results, from the i-th on, that count as successful
RECURSIVE Successful(_, _)
Successful(results, i) ==
    IF i > Len(results) THEN 0
    ELSE (IF results[i].result.success THEN 1 ELSE 0) + Successful(results, i + 1)

BatchInit ==
    /\ SplitterIdle /\ ToolIdle /\ ResolverIdle /\ BesideBatchIdle
    /\ batch_tasks \in BatchLists(MaxBatch)
    /\ batch_pc = 1
    /\ batch_results = <<>>
    /\ batch_return = [kind |-> "pending"]

\* video_processor.py:145-176: one turn of the loop
process_task ==
    /\ batch_return.kind = "pending"
    /\ batch_pc \in DOMAIN batch_tasks
    /\ batch_results' =
          Append(batch_results,
                 [task_index |-> batch_pc - 1, task_type |-> batch_tasks[batch_pc].type,
                  result |-> ResultOf(batch_tasks[batch_pc])])
    /\ batch_pc' = batch_pc + 1
    /\ UNCHANGED <<batch_tasks, batch_return, splitter_vars, tool_vars, resolver_vars,
                   beside_batch>>

\* video_processor.py:178-187: the count and the summary
summarise ==
    /\ batch_return.kind = "pending"
    /\ batch_pc = Len(batch_tasks) + 1
    /\ batch_return' =
          IF \E i \in DOMAIN batch_results : SuccessRaises(batch_results[i])
          THEN [kind |-> "raised", exception |-> "AttributeError"]
          ELSE [kind |-> "returned", results |-> batch_results,
                total_tasks |-> Len(batch_tasks),
                successful_tasks |-> Successful(batch_results, 1),
                failed_tasks |-> Len(batch_tasks) - Successful(batch_results, 1)]
    /\ UNCHANGED <<batch_tasks, batch_pc, batch_results, splitter_vars, tool_vars,
                   resolver_vars, beside_batch>>

BatchNext == process_task \/ summarise

BatchSpec == BatchInit /\ [][BatchNext]_vars

\* ------------------------------------------------------------ the target durations
\* numbers are exact fractions num/den with den > 0, in lowest terms
RECURSIVE GCD(_, _)
GCD(a, b) == IF b = 0 THEN a ELSE GCD(b, a % b)

Abs(x) == IF x < 0 THEN -x ELSE x

Rat(n, d) ==
    LET g == GCD(Abs(n), Abs(d))
        sign == IF d < 0 THEN -1 ELSE 1
    IN  [num |-> sign * (n \div g), den |-> sign * (d \div g)]

\* the product, with the common factors taken out before multiplying
RatMul(x, y) ==
    LET g1 == GCD(Abs(x.num), y.den)
        g2 == GCD(Abs(y.num), x.den)
    IN  Rat((x.num \div g1) * (y.num \div g2), (x.den \div g2) * (y.den \div g1))

\* the quotient by a number that is not zero
RatDiv(x, y) == RatMul(x, Rat(y.den, y.num))
RatLess(x, y) == x.num * y.den < y.num * x.den

\* max(a, b) of Python: b only when b > a
RatMax(a, b) == IF RatLess(a, b) THEN b ELSE a

\* the floor 0.5 of splitter.py:95 and :203
HalfSecond == Rat(1, 2)

\* the factor 0.95 of splitter.py:203
FixedSafetyFactor == Rat(95, 100)

\* a first-pass duration without the floor
segment_duration_unclamped(o, source_size, duration) ==
    RatMul(RatDiv(Rat(o.max_size_bytes, 1), RatDiv(Rat(source_size, 1), duration)),
           o.safety_factor)

\* splitter.py:94-95: bytes_per_sec = source_size / duration;
\* max(0.5, (options.max_size_bytes / bytes_per_sec) * options.safety_factor)
segment_duration_of(o, source_size, duration) ==
    LET bytes_per_sec == RatDiv(Rat(source_size, 1), duration) IN
    RatMax(HalfSecond,
           RatMul(RatDiv(Rat(o.max_size_bytes, 1), bytes_per_sec), o.safety_factor))

\* a re-segmentation duration that uses the caller's safety factor
new_duration_with_safety_factor(o, current_size, duration) ==
    segment_duration_of(o, current_size, duration)

\* splitter.py:202-203 in a call with options o: bytes_per_sec = current_size /
\* duration; max(0.5, (max_size / bytes_per_sec) * 0.95)
new_duration_of(o, current_size, duration) ==
    LET bytes_per_sec == RatDiv(Rat(current_size, 1), duration) IN
    RatMax(HalfSecond,
           RatMul(RatDiv(Rat(o.max_size_bytes, 1), bytes_per_sec), FixedSafetyFactor))

\* pairs (source size, max_size_bytes) past the fast path: source_size > max > 0
SizePairs == {<<3, 2>>, <<7, 2>>, <<10000000, 2>>, <<10000000, 2000000>>}

\* durations a probe reports, past the tests of splitter.py:90 and :192
PositiveDurations == {Rat(1, 2), Rat(5, 1), Rat(100, 1)}

\* safety factors a caller may pass
SafetyFactors == {Rat(-1, 1), Rat(0, 1), Rat(1, 2), Rat(95, 100), Rat(1, 1), Rat(2, 1)}

\* the options of the second call: the first call's but for the safety factor
OtherOptions ==
    [max_size_bytes |-> calc.options.max_size_bytes,
     safety_factor |-> calc.other_safety_factor]

DurationInit ==
    /\ SplitterIdle /\ ToolIdle /\ ResolverIdle /\ BesideDurationIdle
    /\ \E sp \in SizePairs, d \in PositiveDurations, sd \in PositiveDurations,
          f \in SafetyFactors, g \in SafetyFactors, extra \in {1, 5} :
          /\ f # g
          /\ calc = [options |-> [max_size_bytes |-> sp[2], safety_factor |-> f],
                     other_safety_factor |-> g,
                     source_size |-> sp[1], duration |-> d,
                     current_size |-> sp[2] + extra, segment_duration |-> sd]
    /\ segment_duration = <<>>
    /\ new_duration = <<>>

\* splitter.py:93-95
compute_segment_duration ==
    /\ "options" \in DOMAIN calc /\ segment_duration = <<>>
    /\ segment_duration' =
          <<segment_duration_of(calc.options, calc.source_size, calc.duration)>>
    /\ UNCHANGED <<calc, new_duration, splitter_vars, tool_vars, resolver_vars,
                   beside_duration>>

\* splitter.py:201-203, in the call and in the call that differs only in its
\* safety factor, on the same oversized segment
compute_new_duration ==
    /\ "options" \in DOMAIN calc /\ new_duration = <<>>
    /\ new_duration' =
          <<new_duration_of(calc.options, calc.current_size, calc.segment_duration),
            new_duration_of(OtherOptions, calc.current_size, calc.segment_duration)>>
    /\ UNCHANGED <<calc, segment_duration, splitter_vars, tool_vars, resolver_vars,
                   beside_duration>>

DurationNext == compute_segment_duration \/ compute_new_duration

DurationSpec == DurationInit /\ [][DurationNext]_vars

\* ------------------------------------------------------------ vocabulary of the claims
Done == pc = "done"
Returned == Done /\ result.kind = "returned"

\* a successful outcome that is not the copy fast path
SplitOutcome == Returned /\ result.success /\ ~result.was_copied

Accepted == Range(result.output_files)
Oversized == Range(result.oversized_files)

\* the recursion lineage of f consumed every round: f came back from the round test
LineageExhausted(f) == \E l \in leaves : l.file = f /\ l.rounds <= 0

\* the repair of f was given up because its probe or its re-segmentation failed
RepairFailed(f) == \E l \in leaves : l.file = f /\ l.why \in {"probe", "segment"}

OversizedLeaf(l) == l.size > options.max_size_bytes

RECURSIVE Pow(_, _)
Pow(k, n) == IF n = 0 THEN 1 ELSE k * Pow(k, n - 1)

\* Segment runs of a call whose runs each yield at most k files under a budget of
\* r rounds: 1 + k + k^2 + ... + k^r
RECURSIVE SegmentRunBound(_, _)
SegmentRunBound(k, r) == IF r = 0 THEN 1 ELSE Pow(k, r) + SegmentRunBound(k, r - 1)

ValidRequest ==
    /\ exists(disk0, options.source_file)
    /\ options.max_size_bytes > 0
    /\ strip(options.output_name) # ""
    /\ strip(options.output_extension) # ""

\* C8 as stated: for every valid request whose source is no larger than
\* max_size_bytes the call copies the source to the canonical name and returns
\* accepted = [canonical], oversized = [], copied = true, with no probe and no
\* Segment run.
C8_FastPath ==
    (Done /\ ValidRequest /\ disk0[options.source_file] <= options.max_size_bytes) =>
        /\ result = Success(<<Canonical>>, <<>>, TRUE)
        /\ exists(disk, Canonical)
        /\ disk[Canonical] = disk0[options.source_file]
        /\ probe_calls = 0
        /\ segment_calls = 0

\* the request is invalid in the words of the claim
InvalidRequest ==
    \/ ~exists(disk0, options.source_file)
    \/ options.max_size_bytes <= 0
    \/ options.output_name = ""
    \/ options.output_extension = ""

\* C9: an invalid request (source absent, max_size_bytes <= 0, empty output name
\* or empty output extension) ends in a returned failure, with no child process
\* spawned and the file system left as it was.
C9_InvalidRequestFailsFast ==
    InvalidRequest =>
        /\ pc \in {"start", "done"}
        /\ probe_calls = 0
        /\ segment_calls = 0
        /\ disk = disk0
        /\ Done => (result.kind = "returned" /\ ~result.success)

\* the call has returned on a request whose only defect is the empty extension
C9_Witness ==
    /\ Done
    /\ InvalidRequest
    /\ exists(disk0, options.source_file)
    /\ disk0[options.source_file] > 0
    /\ options.max_size_bytes > 0
    /\ options.output_name = "out"
    /\ result.error_message = "Output extension cannot be empty"

\* the probe of the source succeeded and reported no duration or one <= 0
SourceDurationAbsentOrNonPositive ==
    /\ probe_calls >= 1
    /\ source_probe.success
    /\ (~source_probe.has_duration \/ source_probe.duration <= 0)

\* C10: for a valid request whose source is larger than max_size_bytes, when the
\* probe reports a duration that is absent or <= 0 the call returns a failure,
\* Segment is never run and no file is created.
C10_UnknownDurationFails ==
    (ValidRequest /\ SourceDurationAbsentOrNonPositive) =>
        /\ Returned
        /\ ~result.success
        /\ segment_calls = 0
        /\ created = {}
        /\ DOMAIN disk = DOMAIN disk0

\* the call has failed on a probe that reported a negative duration
C10_Witness ==
    /\ Done
    /\ ValidRequest
    /\ SourceDurationAbsentOrNonPositive
    /\ source_probe.has_duration
    /\ source_probe.duration < 0
    /\ result.error_message = "Could not determine video duration"

\* ------------------------------------------------------------ claims C11..C20
\* the probe of the source ran and failed
InitialProbeFailed == probe_calls > 0 /\ ~source_probe.success

\* the first-pass Segment run ran and failed
InitialSegmentFailed == segment_result # NoSegment /\ ~segment_result.success

\* no repair was entered, nothing was deleted or renamed, the files are as found
NoRepairNoDeleteNoRename ==
    /\ stack = <<>> /\ split_files = <<>>
    /\ resegmented = {} /\ leaves = {}
    /\ deleted = {} /\ renamed_from = {}
    /\ disk = disk0

IsAscending(q) == \A i \in 1..(Len(q) - 1) : LexLess(q[i], q[i + 1])

Degenerate ==
    SplitOutcome /\ Len(result.output_files) = 1 /\ result.oversized_files = <<>>

\* a file named by the numbered pattern of the request
Numbered(f) == IsProperPrefix(pattern_of(options), f)

\* the accepted list is the canonical name, that file exists, the numbered file
\* it was renamed from is gone
RenamedToCanonical ==
    /\ result.output_files = <<canonical_of(options)>>
    /\ exists(disk, canonical_of(options))
    /\ Cardinality(renamed_from) = 1
    /\ \A f \in renamed_from : Numbered(f) /\ ~exists(disk, f)

Evaluations == {i \in 1..Len(log) : log[i].kind = "evaluate"}

\* the positions of the log where a child process (ffprobe, ffmpeg) ran
ChildProcesses == {i \in 1..Len(log) : log[i].kind \in {"probe", "segment"}}

\* the child process works on the first-pass segment seg or on a descendant of it
BelongsTo(path, seg) == path = seg \/ IsProperPrefix(seg, path)

\* the last size evaluation before position j of the log (0 when there is none)
LastEvaluationBefore(j) ==
    IF \E i \in Evaluations : i < j
    THEN CHOOSE i \in Evaluations : i < j /\ \A k \in Evaluations : k < j => k <= i
    ELSE 0

ProducedBy(c) ==
    c.created \cup
    (IF c.result.success /\ (c.result.was_copied \/ c.renamed_from # {})
     THEN {canonical_of(c.options)} ELSE {})

\* the files a call lists in its outcome, deleted or renamed
TouchedBy(c) ==
    Range(c.result.output_files) \cup Range(c.result.oversized_files)
    \cup c.deleted \cup c.renamed_from

ExecutorEnded == tool_op \in {"segment", "clip"} /\ tool_pc = "done"

\* C17 as stated: Segment and Clip never raise: whatever the directory creation
\* and the child process do, execute returns a result; when the directory
\* cannot be created, the tool is missing or exits non-zero, or (Clip) the
\* output is missing, the result has success = false and an error message.
C17_ExecutorsNeverRaise ==
    ExecutorEnded =>
        /\ tool_ret.kind = "returned"
        /\ ((tool_dir # "" /\ ~tool_env.mkdir_ok) \/ RunOutcome(tool_env) # "ok"
              \/ (tool_op = "clip" /\ OutputPath(tool_dir) \notin tool_fs))
             => (~tool_ret.success /\ tool_ret.error_message # "")

\* C19 as stated: after _merge_video_clips returned, whether the tool succeeded,
\* exited non-zero or left no output, the manifest file no longer exists.
C19_ManifestRemoved ==
    (tool_op = "merge" /\ tool_pc = "done") => Manifest \notin tool_fs

\* C20: probe_media on a path that does not exist returns the not-found
\* failure without spawning a child process; on a path that exists it spawns
\* exactly one; in both cases no file is created, deleted or modified.
C20_ProbeSpawnsAtMostOnce ==
    tool_op = "probe_media" =>
        /\ tool_fs = tool_fs0
        /\ tool_pc = "call" => tool_spawned = 0
        /\ tool_pc = "done" =>
              /\ tool_ret.kind = "returned"
              /\ IF InputPath \in tool_fs0
                 THEN tool_spawned = 1
                 ELSE /\ tool_spawned = 0
                      /\ tool_ret = FFmpegResult(FALSE, "File not found", <<>>)

\* probe_media has returned a failure of ffprobe on a file that exists
C20_Witness ==
    /\ tool_op = "probe_media" /\ tool_pc = "done"
    /\ InputPath \in tool_fs0
    /\ tool_spawned = 1
    /\ ~tool_ret.success /\ tool_ret.error_message = "FFprobe failed"

\* the file a path names: a leading "./" dropped
Normalize(path) == IF StartsWith(path, <<".", "/">>) THEN Drop(path, 2) ELSE path

\* the files of the directory, as paths
GeneratedFiles ==
    {Normalize(IF LastSlash(output_pattern) = 0 THEN f
               ELSE join(dirname(output_pattern), f)) : f \in dir_names}

FilesOf(paths) == {Normalize(f) : f \in paths}

\* C18 as stated: on a directory that holds exactly the N files generated from
\* a 3-digit pattern, the glob tier, the regex tier and the decomposition tier,
\* each run on its own, return the same N files.
C18_ResolverEquivalence ==
    tiers_run = {"glob", "regex", "decomposition"} =>
        /\ FilesOf(glob_segments) = GeneratedFiles
        /\ FilesOf(regex_segments) = GeneratedFiles
        /\ FilesOf(decomposition_segments) = GeneratedFiles

\* ------------------------------------------------------------ claims C21..C30
\* the inputs of the example: 10,000,000 bytes, 100 s, 2,000,000 bytes, 0.95
ExampleInputs ==
    /\ "options" \in DOMAIN calc
    /\ calc.source_size = 10000000 /\ calc.duration = Rat(100, 1)
    /\ calc.options.max_size_bytes = 2000000
    /\ calc.options.safety_factor = Rat(95, 100)

\* C21: the first-pass target duration is max(0.5, (max_size_bytes /
\* (source_size / duration)) * safety_factor): it is the product when the
\* product exceeds 0.5 and 0.5 otherwise, so never below 0.5 s; for 10,000,000
\* bytes, 100 s, 2,000,000 bytes and 0.95 it is 19 s.
C21_SegmentDuration ==
    segment_duration # <<>> =>
        LET x == RatMul(RatDiv(Rat(calc.options.max_size_bytes, 1),
                               RatDiv(Rat(calc.source_size, 1), calc.duration)),
                        calc.options.safety_factor)
        IN  /\ ~RatLess(segment_duration[1], HalfSecond)
            /\ ~RatLess(segment_duration[1], x)
            /\ segment_duration[1] \in {x, HalfSecond}
            /\ ExampleInputs => segment_duration[1] = Rat(19, 1)

\* the duration of the example has been computed
C21_Witness == ExampleInputs /\ segment_duration = <<Rat(19, 1)>>

\* C25: the re-segmentation duration is max(0.5, (max_size / (current_size /
\* duration)) * 0.95) whatever the caller's safety factor: two calls that differ
\* only in safety_factor compute the same duration for the same segment.
C25_FixedSafetyFactor ==
    new_duration # <<>> =>
        /\ new_duration[1] = new_duration[2]
        /\ new_duration[1] =
              RatMax(HalfSecond,
                     RatMul(RatDiv(Rat(calc.options.max_size_bytes, 1),
                                   RatDiv(Rat(calc.current_size, 1),
                                          calc.segment_duration)),
                            FixedSafetyFactor))

\* two calls with safety factors 2 and 0.5 have computed the duration for a
\* segment where the caller's factor would have changed it
C25_Witness ==
    /\ new_duration # <<>>
    /\ calc.options.safety_factor = Rat(2, 1)
    /\ calc.other_safety_factor = Rat(1, 2)
    /\ RatLess(HalfSecond, new_duration[1])

\* the re-segmentation runs logged up to position i on the segment of event i or
\* on one of the segments it descends from
LineageRuns(i) ==
    {j \in 1..i : /\ log[j].kind = "segment"
                  /\ log[j].path # options.source_file
                  /\ BelongsTo(log[i].path, log[j].path)}

FirstNonEmpty ==
    IF glob_tier(find_pattern, find_names) # {}
    THEN glob_tier(find_pattern, find_names)
    ELSE IF regex_tier(find_pattern, find_names) # {}
    THEN regex_tier(find_pattern, find_names)
    ELSE decomposition_tier(find_pattern, find_names)

Consulted(tier) == \E i \in DOMAIN find_consulted : find_consulted[i] = tier

\* C23: the resolver consults glob, then regex, then decomposition; the regex
\* tier only when glob found nothing and the decomposition tier only when
\* glob and regex found nothing; the list handed on holds the files of the
\* first tier that found any, in ascending lexicographic order.
C23_TiersInOrder ==
    /\ \E k \in 0..3 : find_consulted = SubSeq(<<"glob", "regex", "decomposition">>, 1, k)
    /\ Consulted("regex") => glob_tier(find_pattern, find_names) = {}
    /\ Consulted("decomposition") =>
          /\ glob_tier(find_pattern, find_names) = {}
          /\ regex_tier(find_pattern, find_names) = {}
    /\ find_pc \in {"sort", "done"} => find_segments = FirstNonEmpty
    /\ find_pc = "done" =>
          /\ {find_output[i] : i \in DOMAIN find_output} = FirstNonEmpty
          /\ Len(find_output) = Cardinality(FirstNonEmpty)
          /\ \A i \in 1..(Len(find_output) - 1) :
                StrLess(find_output[i], find_output[i + 1])

\* the decomposition tier found the three files that ffmpeg wrote, which glob
\* and regex missed, and they were handed on in order
C23_Witness ==
    /\ find_pc = "done"
    /\ find_consulted = <<"glob", "regex", "decomposition">>
    /\ Len(find_output) = 3

\* the files that were in the directory before the call, the source apart
Leftovers == DOMAIN disk0 \ {options.source_file}

StreamsOf(type) == SelectSeq(streams, LAMBDA st : st.codec_type = type)

\* C26 as stated: for every stream list the MediaInfo takes video codec, width
\* and height from the first stream of type "video" and the audio codec from
\* the first stream of type "audio", also when that stream has no codec name;
\* later streams of the same type change nothing.
C26_FirstStreamWins ==
    "video_codec" \in DOMAIN media_info =>
        /\ StreamsOf("video") # <<>> =>
              /\ media_info.video_codec = StreamsOf("video")[1].codec_name
              /\ media_info.width = StreamsOf("video")[1].width
              /\ media_info.height = StreamsOf("video")[1].height
        /\ StreamsOf("audio") # <<>> =>
              media_info.audio_codec = StreamsOf("audio")[1].codec_name

\* C27 as stated: validate_config_file validates without loading: after the
\* call, for valid and for invalid files, current_config is what it was before.
C27_ValidateLeavesConfig ==
    config_call.op = "validate_config_file" => current_config = config_call.before

\* an entry of the task list that is no dictionary or lacks 'type' or 'parameters'
Malformed(task_data) ==
    "type" \notin DOMAIN task_data \/ "parameters" \notin DOMAIN task_data

\* the dictionary fails in one of the ways the claim lists
FailsToValidate(d) ==
    \/ "tasks" \notin DOMAIN d
    \/ \E i \in 1..Len(d.tasks) : Malformed(d.tasks[i])
    \/ d.tasks = <<>>
    \/ \E i \in 1..Len(d.tasks) :
          TaskConfig_validate([task_type |-> d.tasks[i].type,
                               parameters |-> d.tasks[i].parameters]) # <<>>

\* C28: load_from_dict replaces current_config only when the whole
\* configuration validates: a dictionary without 'tasks', with a malformed
\* task, with an empty task list or with a task that fails validation raises
\* ValidationError and leaves current_config as it was; any other dictionary is
\* returned as a configuration and becomes current_config.
C28_LoadIsAtomic ==
    config_call.op = "load_from_dict" =>
        IF FailsToValidate(config_call.input)
        THEN /\ config_call.outcome.kind = "raised"
             /\ config_call.outcome.exception = "ValidationError"
             /\ current_config = config_call.before
        ELSE /\ config_call.outcome.kind = "returned"
             /\ current_config = config_call.outcome.value
             /\ Len(current_config.tasks) = Len(config_call.input.tasks)

\* a manager that held a configuration was handed a dictionary whose second task
\* fails validation, after a first that passes: it raised and kept what it held
C28_Witness ==
    /\ config_call.op = "load_from_dict"
    /\ config_call.before # NoConfig
    /\ config_call.outcome.kind = "raised"
    /\ config_call.outcome.message = "Configuration validation failed"
    /\ \A i \in DOMAIN config_call.outcome.errors : config_call.outcome.errors[i].task = 2
    /\ current_config = config_call.before

\* C29 as stated: the ProcessingConfig that build() returned holds the tasks
\* and the settings it held when it was built, whatever add_download,
\* add_split, add_clip, set_global_setting or clear is called on the builder
\* afterwards.
C29_BuiltConfigIsStable ==
    built.made =>
        /\ heap[built.tasks] = built.tasks_at_build
        /\ heap[built.global_settings] = built.settings_at_build

\* C30 as stated: process_batch always returns a summary: for every task list,
\* also when tasks fail or raise, the summary has one result per task in input
\* order and successful_tasks + failed_tasks = total_tasks = the number of
\* tasks; every task is run whatever the tasks before it did.
C30_BatchAlwaysSummarises ==
    batch_return.kind \notin {"idle", "pending"} =>
        /\ batch_return.kind = "returned"
        /\ Len(batch_return.results) = Len(batch_tasks)
        /\ \A i \in DOMAIN batch_return.results :
              /\ batch_return.results[i].task_index = i - 1
              /\ batch_return.results[i].task_type = batch_tasks[i].type
        /\ batch_return.total_tasks = Len(batch_tasks)
        /\ batch_return.successful_tasks + batch_return.failed_tasks
              = batch_return.total_tasks

================================================================================
